---- MODULE Spec2Model ----
(***************************************************************************)
(* Data-access gateway of kansha-mg: the notes and folders tables and the  *)
(* repository operations that read and write them.                         *)
(*                                                                         *)
(* A table is a function from primary key to row; a row carries the        *)
(* columns of the CREATE TABLE statement with the values the SQL writes    *)
(* (0/1 for TINYINT flags, NULL for SQL NULL).  A DTO is a function whose  *)
(* domain is the set of fields the caller supplied, so that                *)
(* `data.f !== undefined' is `f \in DOMAIN data'.  Timestamps are readings *)
(* of a clock that advances between calls.                                 *)
(***************************************************************************)
EXTENDS Integers, Sequences, FiniteSets, TLC

VARIABLES
    notes,      \* the notes table: id -> row
    folders,    \* the folders table: id -> row
    users,      \* the users table: id -> row
    clock,      \* what new Date() reads; every call reads a later instant
    repo,       \* the repository this client session talks to
    procs,      \* concurrent callers: the operation of each and where it stands
    pool,       \* the connection pool: how many of its connections are handed out
    call,       \* the withTransaction or healthCheck call in progress
    sent,       \* the statements the last listing call sent to the store
    last        \* the last completed call: operation, arguments, outcome

vars == <<notes, folders, users, clock, repo, procs, pool, call, sent, last>>

-----------------------------------------------------------------------------
(* Bounds and input domains *)

\* number of repository calls of a session
MaxCalls == 3
\* number of concurrent callers working on one note
MaxProcs == 3
\* connectionLimit of the pool (config.mysql.poolMax)
PoolMax == 2

Owners == {"u1", "u2"}
NoteIds == {"n1", "n2"}
FolderIds == {"f1", "f2"}
UserIds == {"a1", "a2"}

\* SQL NULL / JS null in a string column, and in a numeric or DATETIME column
NULL == "NULL"
NULLN == 0 - 1
\* a property the caller left out and the code still passes on as a parameter
Undefined == "undefined"

EmptyDTO == [f \in {} |-> NULL]
Has(data, f) == f \in DOMAIN data

\* JS `data.f || d' for a string-valued field
StrOr(data, f, d) ==
    IF Has(data, f) /\ data[f] # NULL /\ data[f] # "" THEN data[f] ELSE d
\* JS `data.f || d' for a timestamp (an ISO string; never empty when present)
TimeOr(data, f, d) ==
    IF Has(data, f) /\ data[f] # NULLN THEN data[f] ELSE d
\* JS `data.f || d' for a number
NumOr(data, f, d) ==
    IF Has(data, f) /\ data[f] # 0 THEN data[f] ELSE d
\* JS `data.f || []' for an array
SeqOr(data, f) == IF Has(data, f) THEN data[f] ELSE <<>>
\* JS `data.f ? 1 : 0'
Bit(data, f) == IF Has(data, f) /\ data[f] = TRUE THEN 1 ELSE 0
\* JS `data.f !== undefined ? (data.f ? 1 : 0) : null'
BitOrNull(data, f) == IF Has(data, f) THEN Bit(data, f) ELSE NULLN

\* a property present only when the condition holds
Opt(f, present, v) == IF present THEN f :> v ELSE EmptyDTO
\* JS truthiness of a boolean option
Truthy(data, f) == Has(data, f) /\ data[f] = TRUE

\* no row, no entity: what a read by id yields when nothing matches
NoRow == [id |-> NULL]
RowOf(tbl, id) == IF id \in DOMAIN tbl THEN tbl[id] ELSE NoRow

\* a table without the row of id
Without(tbl, id) == [i \in DOMAIN tbl \ {id} |-> tbl[i]]

\* outcome of a call: the table it leaves, whether it raised, what it returned
Outcome(tbl, raised, ret) == [tbl |-> tbl, raised |-> raised, ret |-> ret]
\* outcome of a bulk call that settles every element: `failed' holds the
\* indices of the rejected results
Settled(tbl, ret, failed) ==
    [tbl |-> tbl, raised |-> FALSE, ret |-> ret, failed |-> failed]

-----------------------------------------------------------------------------
(* Filtered queries: a WHERE clause is the list of conditions the code pushes, *)
(* joined by AND                                                              *)

DefaultLimit == 50

EqCond(col, val) == [kind |-> "eq", col |-> col, val |-> val]
\* 'is_deleted = 1'
DeletedCond == EqCond("is_deleted", 1)
\* '(is_deleted = 0 OR is_deleted IS NULL)'
NotDeletedCond == [kind |-> "notDeleted"]
\* 'folder_id IS NULL'
IsNullCond(col) == [kind |-> "isNull", col |-> col]
\* '(JSON_CONTAINS(tags, ?) OR ...)', one parameter per requested tag
AnyTagCond(tags) == [kind |-> "anyTag", val |-> tags]

\* '(username LIKE ? OR email LIKE ? OR name LIKE ?)' with the pattern %search%
LikeCond(search) == [kind |-> "like", val |-> search]
\* the strings of the accounts at hand that contain `part'
Containing(part) ==
    CASE part = "b" -> {"b", "bb_k3x9", "bb_p0q2", "b_k3x9", "b_p0q2", "B.b", "bob"}
      [] part = "N" -> {"N"}
      [] OTHER -> {part}

Holds(cond, row) ==
    CASE cond.kind = "eq" -> row[cond.col] = cond.val
      [] cond.kind = "notDeleted" -> row.is_deleted = 0 \/ row.is_deleted = NULLN
      [] cond.kind = "isNull" -> row[cond.col] = NULL
      [] cond.kind = "anyTag" ->
            \E k \in DOMAIN cond.val, j \in DOMAIN row.tags : row.tags[j] = cond.val[k]
      [] cond.kind = "like" ->
            \/ row.username \in Containing(cond.val)
            \/ \E k \in DOMAIN row.email : row.email[k] \in Containing(cond.val)
            \/ row.name \in Containing(cond.val)

\* the ids of the rows a WHERE clause keeps
Where(tbl, conds) ==
    {i \in DOMAIN tbl : \A k \in DOMAIN conds : Holds(conds[k], tbl[i])}

\* ORDER BY col dir; rows with equal keys come in an order the store picks
RECURSIVE OrderBy(_, _, _, _)
OrderBy(tbl, ids, col, dir) ==
    IF ids = {} THEN <<>>
    ELSE LET first == CHOOSE x \in ids : \A y \in ids :
                        IF dir = "ASC" THEN tbl[x][col] <= tbl[y][col]
                        ELSE tbl[x][col] >= tbl[y][col]
         IN  <<first>> \o OrderBy(tbl, ids \ {first}, col, dir)

\* LIMIT ? OFFSET ?
LimitOffset(ids, limit, offset) ==
    SubSeq(ids, offset + 1,
           IF offset + limit < Len(ids) THEN offset + limit ELSE Len(ids))

\* a builder that adds no predicate unless onlyDeleted is asked for
DeletedStateConds_NoDefault(options) ==
    IF Truthy(options, "onlyDeleted") THEN <<DeletedCond>> ELSE <<>>

\* the deleted-state predicate of findByOwnerId and findWithFilter
DeletedStateConds(options) ==
    IF Truthy(options, "onlyDeleted") THEN <<DeletedCond>>
    ELSE IF ~Truthy(options, "includeDeleted") THEN <<NotDeletedCond>>
    ELSE <<>>

\* A statement is its text and its bind parameters.  The text is put together
\* from the table, the conditions, the ORDER BY pair and the LIMIT/OFFSET
\* placeholders; the parameters are those of the conditions, then the page.
SelectRows(table, conds, order, page) ==
    [table |-> table, count |-> FALSE, conds |-> conds, order |-> order,
     page |-> page]
SelectCount(table, conds) ==
    [table |-> table, count |-> TRUE, conds |-> conds, order |-> <<>>,
     page |-> <<>>]

\* the text a condition contributes, as the code writes it
CondText(cond) ==
    CASE cond = DeletedCond -> <<"is_deleted = 1">>
      [] cond.kind = "eq" /\ cond # DeletedCond -> <<cond.col, "= ?">>
      [] cond.kind = "notDeleted" -> <<"(is_deleted = 0 OR is_deleted IS NULL)">>
      [] cond.kind = "isNull" -> <<cond.col, "IS NULL">>
      [] cond.kind = "anyTag" -> [k \in DOMAIN cond.val |-> "JSON_CONTAINS(tags, ?)"]
      [] cond.kind = "like" -> <<"(username LIKE ? OR email LIKE ? OR name LIKE ?)">>

\* the parameters pushed along with a condition
CondParams(cond) ==
    CASE cond = DeletedCond -> <<>>
      [] cond.kind = "eq" /\ cond # DeletedCond -> <<cond.val>>
      [] cond.kind = "notDeleted" -> <<>>
      [] cond.kind = "isNull" -> <<>>
      [] cond.kind = "anyTag" -> cond.val
      [] cond.kind = "like" -> <<cond.val, cond.val, cond.val>>

RECURSIVE WhereText(_)
WhereText(conds) ==
    IF conds = <<>> THEN <<>> ELSE CondText(Head(conds)) \o WhereText(Tail(conds))

RECURSIVE WhereParams(_)
WhereParams(conds) ==
    IF conds = <<>> THEN <<>> ELSE CondParams(Head(conds)) \o WhereParams(Tail(conds))

\* the SQL text of a statement, fragment by fragment
Text(stmt) ==
    <<"SELECT", IF stmt.count THEN "COUNT(*) as total" ELSE "*", "FROM", stmt.table>>
    \o (IF stmt.conds # <<>> THEN <<"WHERE">> \o WhereText(stmt.conds) ELSE <<>>)
    \o (IF stmt.order # <<>> THEN <<"ORDER BY", stmt.order[1], stmt.order[2]>>
        ELSE <<>>)
    \o (IF stmt.page # <<>> THEN <<"LIMIT ? OFFSET ?">> ELSE <<>>)

Params(stmt) == WhereParams(stmt.conds) \o stmt.page

\* what the store answers: the count, or the ids of the rows in order.  An
\* ORDER BY text that names no column of the table is executed as written,
\* and the rows come back in an order of the store's choosing.
Exec(tbl, stmt) ==
    LET ids == Where(tbl, stmt.conds)
        sorted == IF \A i \in ids : stmt.order[1] \in DOMAIN tbl[i]
                  THEN OrderBy(tbl, ids, stmt.order[1], stmt.order[2])
                  ELSE OrderBy(tbl, ids, "created_at", "ASC")
    IN  IF stmt.count THEN Cardinality(ids)
        ELSE IF stmt.page = <<>> THEN sorted
        ELSE LimitOffset(sorted, stmt.page[1], stmt.page[2])

-----------------------------------------------------------------------------
(* NoteRepository *)

\* rowToNote: 0/1 to boolean; a column read with `|| undefined' is a property
\* the entity lacks when the column is NULL
rowToNote(row) ==
    [id |-> row.id,
     ownerId |-> row.owner_id,
     title |-> row.title,
     content |-> row.content,
     tags |-> row.tags,
     pinned |-> row.pinned # 0,
     favorite |-> row.favorite # 0,
     folderId |-> row.folder_id,
     visibility |-> row.visibility,
     views |-> row.views,
     versions |-> row.versions,
     comments |-> row.comments,
     createdAt |-> row.created_at,
     updatedAt |-> row.updated_at,
     isDeleted |-> row.is_deleted # 0,
     originalFolderId |-> row.original_folder_id]
    @@ Opt("password", row.password # NULL, row.password)
    @@ Opt("shareUrl", row.share_url # NULL, row.share_url)
    @@ Opt("shortId", row.short_id # NULL, row.short_id)
    @@ Opt("expiresAt", row.expires_at # NULLN, row.expires_at)
    @@ Opt("deletedAt", row.deleted_at # NULLN, row.deleted_at)
    @@ Opt("originalPinned", row.original_pinned # NULLN, row.original_pinned # 0)
    @@ Opt("originalFavorite", row.original_favorite # NULLN,
           row.original_favorite # 0)

\* the folder and visibility predicates of findByOwnerId and findWithFilter
NoteFolderConds(options) ==
    IF ~Has(options, "folderId") THEN <<>>
    ELSE IF options.folderId = NULL THEN <<IsNullCond("folder_id")>>
    ELSE <<EqCond("folder_id", options.folderId)>>

NoteVisibilityConds(options) ==
    IF StrOr(options, "visibility", "") # ""
    THEN <<EqCond("visibility", options.visibility)>> ELSE <<>>

\* the ORDER BY pair: the caller's values, or the defaults, put into the text
OrderPair(options, column) ==
    <<StrOr(options, "orderBy", column), StrOr(options, "orderDirection", "DESC")>>

\* limit and offset of a page
Page(options) ==
    <<NumOr(options, "limit", DefaultLimit), NumOr(options, "offset", 0)>>

\* a page as the caller gets it
Paginated(data, total, options) ==
    [data |-> data, total |-> total,
     limit |-> Page(options)[1], offset |-> Page(options)[2]]

NoteFindByOwnerIdStatement(ownerId, options) ==
    SelectRows("notes",
               <<EqCond("owner_id", ownerId)>> \o DeletedStateConds(options)
                    \o NoteFolderConds(options) \o NoteVisibilityConds(options),
               OrderPair(options, "updated_at"), <<>>)

NoteFindByOwnerId(tbl, ownerId, options) ==
    LET rows == Exec(tbl, NoteFindByOwnerIdStatement(ownerId, options))
    IN  [k \in DOMAIN rows |-> rowToNote(tbl[rows[k]])]

NoteFindAllStatements(options) ==
    <<SelectRows("notes", <<NotDeletedCond>>, OrderPair(options, "updated_at"),
                 Page(options)),
      SelectCount("notes", <<NotDeletedCond>>)>>

NoteFindAll(tbl, options) ==
    LET stmts == NoteFindAllStatements(options)
        rows == Exec(tbl, stmts[1])
    IN  Paginated([k \in DOMAIN rows |-> rowToNote(tbl[rows[k]])], Exec(tbl, stmts[2]),
                  options)

\* the conditions findWithFilter pushes, in the order it pushes them
NoteFilterConds(options) ==
    (IF StrOr(options, "ownerId", "") # ""
     THEN <<EqCond("owner_id", options.ownerId)>> ELSE <<>>)
    \o DeletedStateConds(options)
    \o NoteFolderConds(options) \o NoteVisibilityConds(options)
    \o (IF Len(SeqOr(options, "tags")) > 0
        THEN <<AnyTagCond(options.tags)>> ELSE <<>>)

\* a COUNT query that leaves the conditions out
NoteFindWithFilterStatements_CountAll(options) ==
    <<SelectRows("notes", NoteFilterConds(options),
                 OrderPair(options, "updated_at"), Page(options)),
      SelectCount("notes", <<>>)>>

NoteFindWithFilterStatements(options) ==
    <<SelectRows("notes", NoteFilterConds(options),
                 OrderPair(options, "updated_at"), Page(options)),
      SelectCount("notes", NoteFilterConds(options))>>

NoteFindWithFilter(tbl, options) ==
    LET stmts == NoteFindWithFilterStatements(options)
        rows == Exec(tbl, stmts[1])
    IN  Paginated([k \in DOMAIN rows |-> rowToNote(tbl[rows[k]])], Exec(tbl, stmts[2]),
                  options)

\* findById: SELECT * FROM notes WHERE id = ? LIMIT 1
NoteFindById(tbl, id) == IF id \in DOMAIN tbl THEN rowToNote(tbl[id]) ELSE NoRow

\* a create that makes a note public unless told otherwise
NoteCreateRow_PublicDefault(id, data, now) ==
    [id |-> id, owner_id |-> data.ownerId, title |-> data.title,
     content |-> data.content, tags |-> SeqOr(data, "tags"),
     pinned |-> Bit(data, "pinned"), favorite |-> Bit(data, "favorite"),
     folder_id |-> StrOr(data, "folderId", NULL),
     visibility |-> StrOr(data, "visibility", "public"),
     password |-> StrOr(data, "password", NULL),
     share_url |-> NULL, short_id |-> NULL, expires_at |-> NULLN, views |-> 0,
     versions |-> <<>>, comments |-> <<>>, created_at |-> now, updated_at |-> now,
     is_deleted |-> 0, deleted_at |-> NULLN, original_folder_id |-> NULL,
     original_pinned |-> NULLN, original_favorite |-> NULLN]

\* the row INSERTed by create; columns the statement omits take the table's defaults
NoteCreateRow(id, data, now) ==
    [id |-> id,
     owner_id |-> data.ownerId,
     title |-> data.title,
     content |-> data.content,
     tags |-> SeqOr(data, "tags"),
     pinned |-> Bit(data, "pinned"),
     favorite |-> Bit(data, "favorite"),
     folder_id |-> StrOr(data, "folderId", NULL),
     visibility |-> StrOr(data, "visibility", "private"),
     password |-> StrOr(data, "password", NULL),
     share_url |-> NULL,
     short_id |-> NULL,
     expires_at |-> NULLN,
     views |-> 0,
     versions |-> <<>>,
     comments |-> <<>>,
     created_at |-> now,
     updated_at |-> now,
     is_deleted |-> 0,
     deleted_at |-> NULLN,
     original_folder_id |-> NULL,
     original_pinned |-> NULLN,
     original_favorite |-> NULLN]

NoteCreate(tbl, id, data, now) ==
    Outcome(tbl @@ (id :> NoteCreateRow(id, data, now)), FALSE, 1)

\* the fields update turns into `column = ?'
NoteUpdateFields ==
    {"title", "content", "tags", "pinned", "favorite", "folderId", "visibility",
     "password", "shareUrl", "shortId", "expiresAt", "isDeleted", "deletedAt",
     "originalFolderId", "originalPinned", "originalFavorite"}

\* the SET list of update applied to one row
NoteUpdateRow(row, data, now) ==
    [row EXCEPT
        !.title = IF Has(data, "title") THEN data.title ELSE @,
        !.content = IF Has(data, "content") THEN data.content ELSE @,
        !.tags = IF Has(data, "tags") THEN data.tags ELSE @,
        !.pinned = IF Has(data, "pinned") THEN Bit(data, "pinned") ELSE @,
        !.favorite = IF Has(data, "favorite") THEN Bit(data, "favorite") ELSE @,
        !.folder_id = IF Has(data, "folderId") THEN data.folderId ELSE @,
        !.visibility = IF Has(data, "visibility") THEN data.visibility ELSE @,
        !.password = IF Has(data, "password") THEN data.password ELSE @,
        !.share_url = IF Has(data, "shareUrl") THEN data.shareUrl ELSE @,
        !.short_id = IF Has(data, "shortId") THEN data.shortId ELSE @,
        !.expires_at = IF Has(data, "expiresAt") THEN data.expiresAt ELSE @,
        !.is_deleted = IF Has(data, "isDeleted") THEN Bit(data, "isDeleted") ELSE @,
        !.deleted_at = IF Has(data, "deletedAt") THEN data.deletedAt ELSE @,
        !.original_folder_id =
            IF Has(data, "originalFolderId") THEN data.originalFolderId ELSE @,
        !.original_pinned =
            IF Has(data, "originalPinned") THEN Bit(data, "originalPinned") ELSE @,
        !.original_favorite =
            IF Has(data, "originalFavorite") THEN Bit(data, "originalFavorite") ELSE @,
        !.updated_at = now]

\* update without the short-circuit: the timestamp is refreshed in any case
NoteUpdate_TouchAlways(tbl, id, data, now) ==
    IF id \notin DOMAIN tbl THEN Outcome(tbl, FALSE, 0)
    ELSE Outcome([tbl EXCEPT ![id] = NoteUpdateRow(@, data, now)], FALSE, 1)

\* update: no recognised field is a plain read; UPDATE ... WHERE id = ?
NoteUpdate(tbl, id, data, now) ==
    IF DOMAIN data \cap NoteUpdateFields = {} \/ id \notin DOMAIN tbl
    THEN Outcome(tbl, FALSE, IF id \in DOMAIN tbl THEN 1 ELSE 0)
    ELSE Outcome([tbl EXCEPT ![id] = NoteUpdateRow(@, data, now)], FALSE, 1)

\* delete: DELETE FROM notes WHERE id = ?
NoteDelete(tbl, id) ==
    IF id \in DOMAIN tbl THEN Outcome(Without(tbl, id), FALSE, 1)
    ELSE Outcome(tbl, FALSE, 0)

\* the row INSERTed by upsert
NoteUpsertRow(id, ownerId, data, now) ==
    [id |-> id,
     owner_id |-> ownerId,
     title |-> StrOr(data, "title", ""),
     content |-> StrOr(data, "content", ""),
     tags |-> SeqOr(data, "tags"),
     pinned |-> Bit(data, "pinned"),
     favorite |-> Bit(data, "favorite"),
     folder_id |-> StrOr(data, "folderId", NULL),
     visibility |-> StrOr(data, "visibility", "private"),
     password |-> StrOr(data, "password", NULL),
     share_url |-> StrOr(data, "shareUrl", NULL),
     short_id |-> StrOr(data, "shortId", NULL),
     expires_at |-> TimeOr(data, "expiresAt", NULLN),
     views |-> NumOr(data, "views", 0),
     versions |-> SeqOr(data, "versions"),
     comments |-> SeqOr(data, "comments"),
     created_at |-> TimeOr(data, "createdAt", now),
     updated_at |-> TimeOr(data, "updatedAt", now),
     is_deleted |-> Bit(data, "isDeleted"),
     deleted_at |-> TimeOr(data, "deletedAt", NULLN),
     original_folder_id |-> StrOr(data, "originalFolderId", NULL),
     original_pinned |-> BitOrNull(data, "originalPinned"),
     original_favorite |-> BitOrNull(data, "originalFavorite")]

\* upsert: SELECT by (id, owner); update when found, INSERT otherwise.  An
\* undefined owner is rejected as a bind parameter; an id held by another
\* owner makes the INSERT fail on the primary key.
\* an existence check by id alone
NoteUpsert_ById(tbl, id, ownerId, data, now) ==
    IF ownerId = Undefined THEN Outcome(tbl, TRUE, 0)
    ELSE IF id \in DOMAIN tbl THEN NoteUpdate(tbl, id, data, now)
    ELSE Outcome(tbl @@ (id :> NoteUpsertRow(id, ownerId, data, now)), FALSE, 1)
NoteUpsert(tbl, id, ownerId, data, now) ==
    IF ownerId = Undefined THEN Outcome(tbl, TRUE, 0)
    ELSE IF id \in DOMAIN tbl /\ tbl[id].owner_id = ownerId
    THEN NoteUpdate(tbl, id, data, now)
    ELSE IF id \in DOMAIN tbl THEN Outcome(tbl, TRUE, 0)
    ELSE Outcome(tbl @@ (id :> NoteUpsertRow(id, ownerId, data, now)), FALSE, 1)

\* bulkUpsert: Promise.allSettled over one upsert per element, then the count
\* of the fulfilled ones.  The elements of a batch carry distinct ids here, so
\* their upserts commute and are applied in batch order.
RECURSIVE NoteBulkApply(_, _, _, _)
NoteBulkApply(tbl, batch, k, now) ==
    IF k > Len(batch) THEN Settled(tbl, 0, {})
    ELSE LET elt == batch[k]
             one == NoteUpsert(tbl, elt.id,
                        IF Has(elt, "ownerId") THEN elt.ownerId ELSE Undefined,
                        elt, now)
             rest == NoteBulkApply(one.tbl, batch, k + 1, now)
         IN  IF one.raised THEN Settled(rest.tbl, rest.ret, rest.failed \cup {k})
             ELSE Settled(rest.tbl, rest.ret + 1, rest.failed)

\* a bulkUpsert that gives up at the first element that fails
RECURSIVE NoteBulkApply_Abort(_, _, _, _)
NoteBulkApply_Abort(tbl, batch, k, now) ==
    IF k > Len(batch) THEN Settled(tbl, 0, {})
    ELSE LET elt == batch[k]
             one == NoteUpsert(tbl, elt.id,
                        IF Has(elt, "ownerId") THEN elt.ownerId ELSE Undefined,
                        elt, now)
             rest == NoteBulkApply_Abort(one.tbl, batch, k + 1, now)
         IN  IF one.raised THEN Settled(tbl, 0, {k})
             ELSE Settled(rest.tbl, rest.ret + 1, rest.failed)

NoteBulkUpsert_AbortOnFailure(tbl, batch, now) ==
    NoteBulkApply_Abort(tbl, batch, 1, now)

NoteBulkUpsert(tbl, batch, now) == NoteBulkApply(tbl, batch, 1, now)

\* softDelete clearing the live columns before it copies them
NoteSoftDeleteRow_ClearFirst(row, now) ==
    [row EXCEPT
        !.is_deleted = 1,
        !.deleted_at = now,
        !.original_folder_id = NULL,
        !.original_pinned = 0,
        !.original_favorite = 0,
        !.folder_id = NULL,
        !.pinned = 0,
        !.favorite = 0,
        !.updated_at = now]

\* the UPDATE of softDelete on one row; MySQL evaluates the assignments of a
\* single-table UPDATE left to right, so the originals are taken first
NoteSoftDeleteRow(row, now) ==
    [row EXCEPT
        !.is_deleted = 1,
        !.deleted_at = now,
        !.original_folder_id = row.folder_id,
        !.original_pinned = row.pinned,
        !.original_favorite = row.favorite,
        !.folder_id = NULL,
        !.pinned = 0,
        !.favorite = 0,
        !.updated_at = now]

\* softDelete: findById, return when absent or foreign, else the UPDATE
NoteSoftDelete(tbl, noteId, ownerId, now) ==
    IF noteId \notin DOMAIN tbl \/ rowToNote(tbl[noteId]).ownerId # ownerId
    THEN Outcome(tbl, FALSE, 0)
    ELSE Outcome([i \in DOMAIN tbl |->
                    IF tbl[i].id = noteId /\ tbl[i].owner_id = ownerId
                    THEN NoteSoftDeleteRow(tbl[i], now) ELSE tbl[i]], FALSE, 0)

\* COALESCE(x, 0)
Coalesce0(x) == IF x = NULLN THEN 0 ELSE x

\* the UPDATE of restore on one row
NoteRestoreRow(row, now) ==
    [row EXCEPT
        !.is_deleted = 0,
        !.deleted_at = NULLN,
        !.folder_id = row.original_folder_id,
        !.pinned = Coalesce0(row.original_pinned),
        !.favorite = Coalesce0(row.original_favorite),
        !.original_folder_id = NULL,
        !.original_pinned = NULLN,
        !.original_favorite = NULLN,
        !.updated_at = now]

\* restore whose WHERE clause forgets the owner
NoteRestore_AnyOwner(tbl, noteId, ownerId, now) ==
    Outcome([i \in DOMAIN tbl |->
                IF tbl[i].id = noteId THEN NoteRestoreRow(tbl[i], now) ELSE tbl[i]],
            FALSE, 0)

\* restore: UPDATE ... WHERE id = ? AND owner_id = ?
NoteRestore(tbl, noteId, ownerId, now) ==
    Outcome([i \in DOMAIN tbl |->
                IF tbl[i].id = noteId /\ tbl[i].owner_id = ownerId
                THEN NoteRestoreRow(tbl[i], now) ELSE tbl[i]], FALSE, 0)

\* permanentDelete: DELETE ... WHERE id = ? AND owner_id = ?
\* a permanentDelete that only empties the trash
NotePermanentDelete_OnlyTrashed(tbl, noteId, ownerId) ==
    IF noteId \in DOMAIN tbl /\ tbl[noteId].owner_id = ownerId
       /\ tbl[noteId].is_deleted = 1
    THEN Outcome(Without(tbl, noteId), FALSE, 1)
    ELSE Outcome(tbl, FALSE, 0)

NotePermanentDelete(tbl, noteId, ownerId) ==
    IF noteId \in DOMAIN tbl /\ tbl[noteId].owner_id = ownerId
    THEN Outcome(Without(tbl, noteId), FALSE, 1)
    ELSE Outcome(tbl, FALSE, 0)

\* updateFolderReference: UPDATE ... WHERE folder_id = ? AND owner_id = ?
NoteUpdateFolderReference(tbl, folderId, ownerId, newFolderId, now) ==
    LET hit == {i \in DOMAIN tbl :
                    tbl[i].folder_id = folderId /\ tbl[i].owner_id = ownerId}
    IN  Outcome([i \in DOMAIN tbl |->
                    IF i \in hit
                    THEN [tbl[i] EXCEPT !.folder_id = newFolderId, !.updated_at = now]
                    ELSE tbl[i]], FALSE, Cardinality(hit))

\* the UPDATE of addVersion / addComment: the whole log, as read plus the new
\* item, and updated_at; no other column
\* an append made by the store: JSON_ARRAY_APPEND on the stored log
NoteAddVersionWrite_Append(tbl, noteId, note, version, now) ==
    IF noteId \in DOMAIN tbl
    THEN [tbl EXCEPT ![noteId].versions = Append(tbl[noteId].versions, version),
                     ![noteId].updated_at = now]
    ELSE tbl
NoteAddVersionWrite(tbl, noteId, note, version, now) ==
    IF noteId \in DOMAIN tbl
    THEN [tbl EXCEPT ![noteId].versions = Append(note.versions, version),
                     ![noteId].updated_at = now]
    ELSE tbl
\* a write-back of the whole note as it was read, with the new comment
NoteAddCommentWrite_WholeNote(tbl, noteId, note, comment, now) ==
    IF noteId \in DOMAIN tbl
    THEN [tbl EXCEPT ![noteId].comments = Append(note.comments, comment),
                     ![noteId].views = note.views,
                     ![noteId].updated_at = now]
    ELSE tbl
\* a write-back of both logs as they were read
NoteAddCommentWrite_BothLogs(tbl, noteId, note, comment, now) ==
    IF noteId \in DOMAIN tbl
    THEN [tbl EXCEPT ![noteId].comments = Append(note.comments, comment),
                     ![noteId].versions = note.versions,
                     ![noteId].updated_at = now]
    ELSE tbl
NoteAddCommentWrite(tbl, noteId, note, comment, now) ==
    IF noteId \in DOMAIN tbl
    THEN [tbl EXCEPT ![noteId].comments = Append(note.comments, comment),
                     ![noteId].updated_at = now]
    ELSE tbl

\* addVersion, addComment run alone: findById, then the UPDATE
NoteAddVersion(tbl, noteId, version, now) ==
    IF noteId \notin DOMAIN tbl THEN Outcome(tbl, FALSE, 0)
    ELSE Outcome(NoteAddVersionWrite(tbl, noteId, rowToNote(tbl[noteId]), version, now),
                 FALSE, 0)
NoteAddComment(tbl, noteId, comment, now) ==
    IF noteId \notin DOMAIN tbl THEN Outcome(tbl, FALSE, 0)
    ELSE Outcome(NoteAddCommentWrite(tbl, noteId, rowToNote(tbl[noteId]), comment, now),
                 FALSE, 0)

\* incrementViews: UPDATE notes SET views = views + 1 WHERE id = ?
NoteIncrementViews(tbl, noteId) ==
    IF noteId \in DOMAIN tbl
    THEN Outcome([tbl EXCEPT ![noteId].views = @ + 1], FALSE, 0)
    ELSE Outcome(tbl, FALSE, 0)

-----------------------------------------------------------------------------
(* FolderRepository *)

rowToFolder(row) ==
    [id |-> row.id,
     ownerId |-> row.owner_id,
     name |-> row.name,
     color |-> row.color,
     createdAt |-> row.created_at,
     isDeleted |-> row.is_deleted # 0]
    @@ Opt("updatedAt", row.updated_at # NULLN, row.updated_at)
    @@ Opt("deletedAt", row.deleted_at # NULLN, row.deleted_at)

FolderFindByOwnerIdStatement(ownerId, options) ==
    SelectRows("folders",
               <<EqCond("owner_id", ownerId)>> \o DeletedStateConds(options),
               OrderPair(options, "created_at"), <<>>)

FolderFindByOwnerId(tbl, ownerId, options) ==
    LET rows == Exec(tbl, FolderFindByOwnerIdStatement(ownerId, options))
    IN  [k \in DOMAIN rows |-> rowToFolder(tbl[rows[k]])]

FolderFindAllStatements(options) ==
    <<SelectRows("folders", <<NotDeletedCond>>, OrderPair(options, "created_at"),
                 Page(options)),
      SelectCount("folders", <<NotDeletedCond>>)>>

FolderFindAll(tbl, options) ==
    LET stmts == FolderFindAllStatements(options)
        rows == Exec(tbl, stmts[1])
    IN  Paginated([k \in DOMAIN rows |-> rowToFolder(tbl[rows[k]])], Exec(tbl, stmts[2]),
                  options)

FolderFilterConds(options) ==
    (IF StrOr(options, "ownerId", "") # ""
     THEN <<EqCond("owner_id", options.ownerId)>> ELSE <<>>)
    \o DeletedStateConds(options)

FolderFindWithFilterStatements(options) ==
    <<SelectRows("folders", FolderFilterConds(options),
                 OrderPair(options, "created_at"), Page(options)),
      SelectCount("folders", FolderFilterConds(options))>>

FolderFindWithFilter(tbl, options) ==
    LET stmts == FolderFindWithFilterStatements(options)
        rows == Exec(tbl, stmts[1])
    IN  Paginated([k \in DOMAIN rows |-> rowToFolder(tbl[rows[k]])], Exec(tbl, stmts[2]),
                  options)

FolderFindById(tbl, id) == IF id \in DOMAIN tbl THEN rowToFolder(tbl[id]) ELSE NoRow

FolderCreateRow(id, data, now) ==
    [id |-> id,
     owner_id |-> data.ownerId,
     name |-> data.name,
     color |-> data.color,
     created_at |-> now,
     updated_at |-> now,
     is_deleted |-> 0,
     deleted_at |-> NULLN]

FolderCreate(tbl, id, data, now) ==
    Outcome(tbl @@ (id :> FolderCreateRow(id, data, now)), FALSE, 1)

FolderUpdateFields == {"name", "color", "isDeleted", "deletedAt"}

FolderUpdateRow(row, data, now) ==
    [row EXCEPT
        !.name = IF Has(data, "name") THEN data.name ELSE @,
        !.color = IF Has(data, "color") THEN data.color ELSE @,
        !.is_deleted = IF Has(data, "isDeleted") THEN Bit(data, "isDeleted") ELSE @,
        !.deleted_at = IF Has(data, "deletedAt") THEN data.deletedAt ELSE @,
        !.updated_at = now]

FolderUpdate(tbl, id, data, now) ==
    IF DOMAIN data \cap FolderUpdateFields = {} \/ id \notin DOMAIN tbl
    THEN Outcome(tbl, FALSE, IF id \in DOMAIN tbl THEN 1 ELSE 0)
    ELSE Outcome([tbl EXCEPT ![id] = FolderUpdateRow(@, data, now)], FALSE, 1)

FolderUpsertRow(id, ownerId, data, now) ==
    [id |-> id,
     owner_id |-> ownerId,
     name |-> StrOr(data, "name", ""),
     color |-> StrOr(data, "color", "#808080"),
     created_at |-> TimeOr(data, "createdAt", now),
     updated_at |-> TimeOr(data, "updatedAt", now),
     is_deleted |-> Bit(data, "isDeleted"),
     deleted_at |-> TimeOr(data, "deletedAt", NULLN)]

\* upsert: SELECT by (id, owner); update when found, INSERT otherwise
FolderUpsert(tbl, id, ownerId, data, now) ==
    IF ownerId = Undefined THEN Outcome(tbl, TRUE, 0)
    ELSE IF id \in DOMAIN tbl /\ tbl[id].owner_id = ownerId
    THEN FolderUpdate(tbl, id, data, now)
    ELSE IF id \in DOMAIN tbl THEN Outcome(tbl, TRUE, 0)
    ELSE Outcome(tbl @@ (id :> FolderUpsertRow(id, ownerId, data, now)), FALSE, 1)

\* The store as a transaction sees it: `pool' is the committed table, which a
\* statement sent through pool.execute changes at once (autocommit); `conn'
\* holds the rows written on the transaction's own connection, which reach the
\* table at commit and are dropped by rollback.
TxBegin(tbl) == [pool |-> tbl, conn |-> [i \in {} |-> NULL]]
TxCommit(tx) == tx.conn @@ tx.pool
TxRollback(tx) == tx.pool

\* one upsert of the bulkUpsert callback: this.upsert calls query/execute of the
\* connection module, which run on the pool, not on the callback's connection
FolderTxUpsert(tx, id, ownerId, data, now) ==
    LET one == FolderUpsert(tx.pool, id, ownerId, data, now)
    IN  [tx |-> [pool |-> one.tbl, conn |-> tx.conn], raised |-> one.raised]

\* the callback of bulkUpsert: a sequential loop that stops at the first throw
RECURSIVE FolderBulkLoop(_, _, _, _, _)
FolderBulkLoop(tx, batch, k, count, now) ==
    IF k > Len(batch) THEN [tx |-> tx, raised |-> FALSE, count |-> count]
    ELSE LET elt == batch[k]
             one == FolderTxUpsert(tx, elt.id,
                        IF Has(elt, "ownerId") THEN elt.ownerId ELSE Undefined,
                        elt, now)
         IN  IF one.raised THEN [tx |-> one.tx, raised |-> TRUE, count |-> count]
             ELSE FolderBulkLoop(one.tx, batch, k + 1, count + 1, now)

\* withTransaction: begin, run fn, commit; on a throw roll back and rethrow
withTransaction(tbl, batch, now) ==
    LET run == FolderBulkLoop(TxBegin(tbl), batch, 1, 0, now)
    IN  IF run.raised THEN Outcome(TxRollback(run.tx), TRUE, 0)
        ELSE Outcome(TxCommit(run.tx), FALSE, run.count)

FolderBulkUpsert(tbl, batch, now) == withTransaction(tbl, batch, now)

FolderSoftDeleteRow(row, now) ==
    [row EXCEPT !.is_deleted = 1, !.deleted_at = now, !.updated_at = now]

FolderSoftDelete(tbl, folderId, ownerId, now) ==
    Outcome([i \in DOMAIN tbl |->
                IF tbl[i].id = folderId /\ tbl[i].owner_id = ownerId
                THEN FolderSoftDeleteRow(tbl[i], now) ELSE tbl[i]], FALSE, 0)

FolderRestoreRow(row, now) ==
    [row EXCEPT !.is_deleted = 0, !.deleted_at = NULLN, !.updated_at = now]

FolderRestore(tbl, folderId, ownerId, now) ==
    Outcome([i \in DOMAIN tbl |->
                IF tbl[i].id = folderId /\ tbl[i].owner_id = ownerId
                THEN FolderRestoreRow(tbl[i], now) ELSE tbl[i]], FALSE, 0)

FolderPermanentDelete(tbl, folderId, ownerId) ==
    IF folderId \in DOMAIN tbl /\ tbl[folderId].owner_id = ownerId
    THEN Outcome(Without(tbl, folderId), FALSE, 1)
    ELSE Outcome(tbl, FALSE, 0)

-----------------------------------------------------------------------------
(* UserRepository *)

\* An ISO 8601 instant is [sec, ms]; a DATETIME column keeps whole seconds.
ISO(sec, ms) == [sec |-> sec, ms |-> ms]
\* new Date().toISOString()
NowISO(now) == ISO(now, 0)

\* toMySQLDatetime of a timestamp that is present: 'T' becomes a blank and the
\* milliseconds and the zone designator are cut off
toMySQLDatetime(iso) == iso.sec
\* toMySQLDatetime(data.f), null when f is missing
UserTime(data, f) == IF Has(data, f) THEN toMySQLDatetime(data[f]) ELSE NULLN
\* toMySQLDatetime(data.f) || now
UserTimeOr(data, f, now) ==
    IF Has(data, f) THEN toMySQLDatetime(data[f]) ELSE toMySQLDatetime(NowISO(now))

\* An e-mail address is <<local part, domain>>; '' is the empty tuple.
EmptyEmail == <<>>
\* data.email?.split('@')[0]
LocalPart(data) ==
    IF Has(data, "email") /\ data.email # EmptyEmail THEN data.email[1] ELSE ""

\* username and email are UNIQUE columns
UserUnique(tbl, id, row) ==
    \A i \in DOMAIN tbl \ {id} :
        tbl[i].username # row.username /\ tbl[i].email # row.email

\* rowToUser: 0/1 to boolean; a column read with `|| undefined' is a property
\* the entity lacks when the column is NULL
rowToUser(row) ==
    [id |-> row.id,
     username |-> row.username,
     email |-> row.email,
     passwordHash |-> row.password_hash,
     hashAlgorithm |-> StrOr(row, "hash_algorithm", "pbkdf2"),
     name |-> row.name,
     role |-> row.role,
     permissions |-> row.permissions,
     suspended |-> row.suspended # 0,
     createdAt |-> row.created_at,
     updatedAt |-> row.updated_at]
    @@ Opt("suspendedAt", row.suspended_at # NULLN, row.suspended_at)
    @@ Opt("suspendedReason", row.suspended_reason # NULL /\ row.suspended_reason # "",
           row.suspended_reason)
    @@ Opt("lastLoginAt", row.last_login_at # NULLN, row.last_login_at)
    @@ Opt("lastSeenAt", row.last_seen_at # NULLN, row.last_seen_at)
    @@ Opt("notesUpdatedAt", row.notes_updated_at # NULLN, row.notes_updated_at)

UserFindById(tbl, id) == IF id \in DOMAIN tbl THEN rowToUser(tbl[id]) ELSE NoRow

UserFindAllStatements(options) ==
    <<SelectRows("users", <<>>, OrderPair(options, "created_at"), Page(options)),
      SelectCount("users", <<>>)>>

UserFindAll(tbl, options) ==
    LET stmts == UserFindAllStatements(options)
        rows == Exec(tbl, stmts[1])
    IN  Paginated([k \in DOMAIN rows |-> rowToUser(tbl[rows[k]])], Exec(tbl, stmts[2]),
                  options)

UserFilterConds(options) ==
    (IF StrOr(options, "search", "") # ""
     THEN <<LikeCond(options.search)>> ELSE <<>>)
    \o (IF StrOr(options, "role", "") # ""
        THEN <<EqCond("role", options.role)>> ELSE <<>>)

UserFindWithFilterStatements(options) ==
    <<SelectRows("users", UserFilterConds(options), <<"created_at", "DESC">>,
                 Page(options)),
      SelectCount("users", UserFilterConds(options))>>

UserFindWithFilter(tbl, options) ==
    LET stmts == UserFindWithFilterStatements(options)
        rows == Exec(tbl, stmts[1])
    IN  Paginated([k \in DOMAIN rows |-> rowToUser(tbl[rows[k]])], Exec(tbl, stmts[2]),
                  options)

\* data.email.split('@')[0].toLowerCase().replace(/[^a-z0-9]/g, '') followed
\* by '_' and four random characters of base 36
GeneratedUsernames(local) ==
    CASE local = "b" -> {"b_k3x9", "b_p0q2"}
      [] local = "B.b" -> {"bb_k3x9", "bb_p0q2"}
      [] OTHER -> {"_k3x9", "_p0q2"}

\* the row INSERTed by create
UserCreateRow(id, data, generated, now) ==
    [id |-> id,
     username |-> StrOr(data, "username", generated),
     email |-> data.email,
     password_hash |-> data.password,
     hash_algorithm |-> "pbkdf2",
     name |-> data.name,
     role |-> StrOr(data, "role", "user"),
     permissions |-> <<>>,
     suspended |-> 0,
     suspended_at |-> NULLN,
     suspended_reason |-> NULL,
     last_login_at |-> toMySQLDatetime(NowISO(now)),
     last_seen_at |-> toMySQLDatetime(NowISO(now)),
     notes_updated_at |-> toMySQLDatetime(NowISO(now)),
     created_at |-> toMySQLDatetime(NowISO(now)),
     updated_at |-> toMySQLDatetime(NowISO(now))]

\* create: INSERT under a fresh id, then findById
UserCreate(tbl, id, data, generated, now) ==
    LET row == UserCreateRow(id, data, generated, now)
    IN  IF UserUnique(tbl, id, row)
        THEN Outcome(tbl @@ (id :> row), FALSE, 1)
        ELSE Outcome(tbl, TRUE, 0)

\* the fields update turns into assignments
UserUpdateFields ==
    {"name", "username", "email", "role", "permissions", "suspended",
     "suspendedReason"}

\* the SET list of update applied to one row, its assignments taking effect
\* from left to right
UserUpdateRow(row, data, now) ==
    [row EXCEPT
       !.name = IF Has(data, "name") THEN data.name ELSE @,
       !.username = IF Has(data, "username") THEN data.username ELSE @,
       !.email = IF Has(data, "email") THEN data.email ELSE @,
       !.role = IF Has(data, "role") THEN data.role ELSE @,
       !.permissions = IF Has(data, "permissions") THEN data.permissions ELSE @,
       !.suspended = IF Has(data, "suspended") THEN Bit(data, "suspended") ELSE @,
       !.suspended_at =
            IF Has(data, "suspended")
            THEN IF data.suspended THEN toMySQLDatetime(NowISO(now)) ELSE NULLN
            ELSE @,
       !.suspended_reason =
            IF Has(data, "suspendedReason") THEN data.suspendedReason
            ELSE IF Has(data, "suspended") /\ ~data.suspended THEN NULL
            ELSE @,
       !.updated_at = toMySQLDatetime(NowISO(now))]

\* update: no recognised field is a plain read; UPDATE ... WHERE id = ?
UserUpdate(tbl, id, data, now) ==
    IF DOMAIN data \cap UserUpdateFields = {} \/ id \notin DOMAIN tbl
    THEN Outcome(tbl, FALSE, IF id \in DOMAIN tbl THEN 1 ELSE 0)
    ELSE LET row == UserUpdateRow(tbl[id], data, now)
         IN  IF UserUnique(tbl, id, row)
             THEN Outcome([tbl EXCEPT ![id] = row], FALSE, 1)
             ELSE Outcome(tbl, TRUE, 0)

\* suspendUser: one UPDATE with `reason || null'
suspendUser(tbl, userId, reason, now) ==
    IF userId \notin DOMAIN tbl THEN Outcome(tbl, FALSE, 0)
    ELSE Outcome([tbl EXCEPT
                    ![userId].suspended = 1,
                    ![userId].suspended_at = toMySQLDatetime(NowISO(now)),
                    ![userId].suspended_reason =
                        IF reason = Undefined \/ reason = "" THEN NULL ELSE reason,
                    ![userId].updated_at = toMySQLDatetime(NowISO(now))],
                 FALSE, 0)

\* unsuspendUser: one UPDATE
unsuspendUser(tbl, userId, now) ==
    IF userId \notin DOMAIN tbl THEN Outcome(tbl, FALSE, 0)
    ELSE Outcome([tbl EXCEPT
                    ![userId].suspended = 0,
                    ![userId].suspended_at = NULLN,
                    ![userId].suspended_reason = NULL,
                    ![userId].updated_at = toMySQLDatetime(NowISO(now))],
                 FALSE, 0)

\* the row INSERTed by upsert
UserUpsertRow(id, data, now) ==
    [id |-> id,
     username |-> StrOr(data, "username",
                        IF LocalPart(data) # "" THEN LocalPart(data) ELSE "user"),
     email |-> IF Has(data, "email") THEN data.email ELSE EmptyEmail,
     password_hash |-> StrOr(data, "passwordHash", ""),
     hash_algorithm |-> StrOr(data, "hashAlgorithm", "pbkdf2"),
     name |-> StrOr(data, "name", ""),
     role |-> StrOr(data, "role", "user"),
     permissions |-> SeqOr(data, "permissions"),
     suspended |-> Bit(data, "suspended"),
     suspended_at |-> UserTime(data, "suspendedAt"),
     suspended_reason |-> StrOr(data, "suspendedReason", NULL),
     last_login_at |-> UserTime(data, "lastLoginAt"),
     last_seen_at |-> UserTime(data, "lastSeenAt"),
     notes_updated_at |-> UserTime(data, "notesUpdatedAt"),
     created_at |-> UserTimeOr(data, "createdAt", now),
     updated_at |-> UserTimeOr(data, "updatedAt", now)]

\* the fields the update branch of upsert writes when they are supplied
UserUpsertFields ==
    {"name", "username", "email", "passwordHash", "hashAlgorithm", "role",
     "permissions", "suspended", "suspendedAt", "suspendedReason",
     "lastLoginAt", "lastSeenAt", "notesUpdatedAt"}

\* the row after the UPDATE of upsert
UserUpsertUpdateRow(row, data, now) ==
    [row EXCEPT
       !.name = IF Has(data, "name") THEN data.name ELSE @,
       !.username = IF Has(data, "username") THEN data.username ELSE @,
       !.email = IF Has(data, "email") THEN data.email ELSE @,
       !.password_hash = IF Has(data, "passwordHash") THEN data.passwordHash ELSE @,
       !.hash_algorithm = IF Has(data, "hashAlgorithm") THEN data.hashAlgorithm ELSE @,
       !.role = IF Has(data, "role") THEN data.role ELSE @,
       !.permissions = IF Has(data, "permissions") THEN data.permissions ELSE @,
       !.suspended = IF Has(data, "suspended") THEN Bit(data, "suspended") ELSE @,
       !.suspended_at = IF Has(data, "suspendedAt") THEN UserTime(data, "suspendedAt") ELSE @,
       !.suspended_reason = IF Has(data, "suspendedReason") THEN data.suspendedReason ELSE @,
       !.last_login_at = IF Has(data, "lastLoginAt") THEN UserTime(data, "lastLoginAt") ELSE @,
       !.last_seen_at = IF Has(data, "lastSeenAt") THEN UserTime(data, "lastSeenAt") ELSE @,
       !.notes_updated_at = IF Has(data, "notesUpdatedAt") THEN UserTime(data, "notesUpdatedAt") ELSE @,
       !.updated_at = UserTimeOr(data, "updatedAt", now)]

\* upsert: SELECT by id; UPDATE the supplied fields when found, INSERT
\* otherwise.  An undefined id is rejected as a bind parameter; a username or
\* an email another row holds makes the statement fail.
UserUpsert(tbl, id, data, now) ==
    IF id = Undefined THEN Outcome(tbl, TRUE, 0)
    ELSE IF id \in DOMAIN tbl
    THEN IF DOMAIN data \cap UserUpsertFields = {} THEN Outcome(tbl, FALSE, 1)
         ELSE LET row == UserUpsertUpdateRow(tbl[id], data, now)
              IN  IF UserUnique(tbl, id, row)
                  THEN Outcome([tbl EXCEPT ![id] = row], FALSE, 1)
                  ELSE Outcome(tbl, TRUE, 0)
    ELSE LET row == UserUpsertRow(id, data, now)
         IN  IF UserUnique(tbl, id, row)
             THEN Outcome(tbl @@ (id :> row), FALSE, 1)
             ELSE Outcome(tbl, TRUE, 0)

\* the upserts of one bulkUpsert, in the order their statements reach the
\* server: `order' lists the indices of the batch
RECURSIVE UserBulkApply(_, _, _, _, _)
UserBulkApply(tbl, batch, order, j, now) ==
    IF j > Len(order) THEN Settled(tbl, 0, {})
    ELSE LET k == order[j]
             elt == batch[k]
             one == UserUpsert(tbl, IF Has(elt, "id") THEN elt.id ELSE Undefined,
                               elt, now)
             rest == UserBulkApply(one.tbl, batch, order, j + 1, now)
         IN  IF one.raised THEN Settled(rest.tbl, rest.ret, rest.failed \cup {k})
             ELSE Settled(rest.tbl, rest.ret + 1, rest.failed)

\* bulkUpsert: Promise.allSettled over one upsert per element, then the count
\* of the fulfilled results
UserBulkUpsert(tbl, batch, order, now) == UserBulkApply(tbl, batch, order, 1, now)

-----------------------------------------------------------------------------
(* Connection pool: withTransaction and healthCheck *)

\* the pool with every connection idle
NoPool == [inUse |-> 0]
\* pool.getConnection() hands out a connection while the limit allows
PoolAcquire(p) == [p EXCEPT !.inUse = @ + 1]
\* connection.release()
PoolRelease(p) == [p EXCEPT !.inUse = @ - 1]

\* how an awaited call on a connection can end: it succeeds, the server
\* rejects it, or the connection is lost
Outcomes == {"ok", "error", "lost"}

NoCall ==
    [kind |-> "none", pc |-> "idle", queries |-> <<>>, k |-> 1, pending |-> <<>>,
     before |-> <<>>, cause |-> "none", error |-> "none", lost |-> FALSE,
     commitIssued |-> FALSE, rollbackIssued |-> FALSE, gotConnection |-> FALSE,
     pingOk |-> FALSE, raised |-> FALSE, ret |-> FALSE]

\* the try block of withTransaction fails at `cause': control goes to catch
TxFail(c, cause, out) ==
    [c EXCEPT !.pc = "rollback", !.cause = cause, !.lost = (out = "lost")]

\* catch of withTransaction: await connection.rollback(); throw error.  On a
\* lost connection rollback rejects and its error is the one that propagates.
TxCatch(c) ==
    [c EXCEPT !.pc = "release", !.rollbackIssued = TRUE, !.pending = <<>>,
              !.error = IF c.lost THEN "rollback" ELSE c.cause]

\* catch of healthCheck: log and return false
HealthCheckCatch_Rethrow(c) ==
    [c EXCEPT !.pc = "returned", !.raised = TRUE, !.ret = FALSE]
HealthCheckCatch(c) ==
    [c EXCEPT !.pc = "returned", !.raised = FALSE, !.ret = FALSE]


\* a timestamp a client sends along: earlier than any reading of the clock
ClientTime == 0

CreateNoteDTOs ==
    {[ownerId |-> "u1", title |-> "T", content |-> "C"],
     [ownerId |-> "u1", title |-> "T", content |-> "C", password |-> "",
      tags |-> <<"x">>, visibility |-> "public"],
     [ownerId |-> "u2", title |-> "T", content |-> "C",
      folderId |-> "f1", pinned |-> TRUE]}

UpdateNoteDTOs == {EmptyDTO, [favorite |-> TRUE], [isDeleted |-> TRUE]}

UpsertNoteDatas ==
    {[title |-> "T", folderId |-> "f1", updatedAt |-> ClientTime]}

NoteBatches ==
    {<<[id |-> "n1", ownerId |-> "u1", title |-> "A", favorite |-> TRUE],
       [id |-> "n2", ownerId |-> "u2", title |-> "B"]>>,
     <<[id |-> "n1", title |-> "A"],
       [id |-> "n2", ownerId |-> "u1", title |-> "B"]>>}

CreateFolderDTOs ==
    {[ownerId |-> o, name |-> "F", color |-> "#fff"] : o \in Owners}

UpdateFolderDTOs == {EmptyDTO, [name |-> "F2"], [isDeleted |-> TRUE]}

UpsertFolderDatas == {[name |-> "F", updatedAt |-> ClientTime]}

FolderBatches ==
    {<<[id |-> "f1", ownerId |-> "u1", name |-> "A"],
       [id |-> "f2", ownerId |-> "u2", name |-> "B"]>>,
     <<[id |-> "f1", ownerId |-> "u2", name |-> "A"],
       [id |-> "f2", ownerId |-> "u1", name |-> "B"]>>,
     <<[id |-> "f1", name |-> "A"],
       [id |-> "f2", ownerId |-> "u1", name |-> "B"]>>}

CreateUserDTOs ==
    {[email |-> <<"b", "x">>, password |-> "pw", name |-> "N"],
     [email |-> <<"B.b", "x">>, password |-> "pw", name |-> "N",
      username |-> "b", role |-> "admin"],
     [email |-> <<"c", "x">>, password |-> "pw", name |-> "N", username |-> ""]}

UpdateUserDTOs ==
    {EmptyDTO, [username |-> "b"], [suspended |-> TRUE],
     [suspended |-> FALSE, name |-> "M"]}

\* the reason argument of suspendUser
Reasons == {Undefined, "spam"}

UpsertUserDatas ==
    {[username |-> "b", email |-> <<"b", "x">>, name |-> "N",
      updatedAt |-> ISO(ClientTime, 500)],
     [name |-> "M", suspended |-> TRUE]}

UserBatches ==
    {<<[id |-> "a1", name |-> "A"],
       [id |-> "a2", username |-> "b", email |-> <<"b", "x">>, name |-> "B"]>>,
     <<[name |-> "A"],
       [id |-> "a2", username |-> "c", email |-> <<"c", "x">>, name |-> "C"]>>}

\* the orders in which the statements of a batch can reach the server
Orders(batch) ==
    {o \in [DOMAIN batch -> DOMAIN batch] : \A k \in DOMAIN batch : \E j \in DOMAIN batch : o[j] = k}

\* the statements a withTransaction callback runs on the connection: each
\* inserts the folder of the given id
TxQueries == {<<"f1">>, <<"f1", "f2">>, <<"f1", "f1">>}

\* the folder a note is moved out of, and where updateFolderReference moves it
MovedFolders == {"f1"}
NewFolders == {NULL, "f2"}

\* the listing calls a session makes: operation, owner argument, options
Queries ==
    {[op |-> "findAll", owner |-> NULL, options |-> EmptyDTO],
     [op |-> "findByOwnerId", owner |-> "u1", options |-> EmptyDTO],
     [op |-> "findByOwnerId", owner |-> "u2", options |-> [onlyDeleted |-> TRUE]],
     [op |-> "findWithFilter", owner |-> NULL, options |-> [limit |-> 1]],
     [op |-> "findWithFilter", owner |-> NULL,
      options |-> [ownerId |-> "u2", onlyDeleted |-> TRUE, includeDeleted |-> TRUE]]}

-----------------------------------------------------------------------------
(* The calls of a client session *)

Init ==
    /\ notes = [i \in {} |-> NULL]
    /\ folders = [i \in {} |-> NULL]
    /\ users = [i \in {} |-> NULL]
    /\ clock = 1
    /\ repo \in {"notes", "folders", "users"}
    /\ procs = <<>>
    /\ pool = NoPool
    /\ call = NoCall
    /\ sent = <<>>
    /\ last = [op |-> "none", id |-> NULL, owner |-> NULL, data |-> EmptyDTO,
               raised |-> FALSE, ret |-> 0, failed |-> {}, pre |-> NoRow]

\* bookkeeping of one completed call
Done(op, id, owner, data, out, pre) ==
    /\ clock <= MaxCalls
    /\ clock' = clock + 1
    /\ last' = [op |-> op, id |-> id, owner |-> owner, data |-> data,
                raised |-> out.raised, ret |-> out.ret,
                failed |-> IF "failed" \in DOMAIN out THEN out.failed ELSE {},
                pre |-> pre]
    /\ sent' = IF "sent" \in DOMAIN out THEN out.sent ELSE <<>>
    /\ UNCHANGED <<repo, procs, pool, call>>

NoteCall(op, id, owner, data, out, pre) ==
    /\ notes' = out.tbl
    /\ UNCHANGED <<folders, users>>
    /\ Done(op, id, owner, data, out, pre)

FolderCall(op, id, owner, data, out, pre) ==
    /\ folders' = out.tbl
    /\ UNCHANGED <<notes, users>>
    /\ Done(op, id, owner, data, out, pre)

UserCall(op, id, data, out, pre) ==
    /\ users' = out.tbl
    /\ UNCHANGED <<notes, folders>>
    /\ Done(op, id, NULL, data, out, pre)

\* uuidv4() yields an id no row has
NoteCreateCall ==
    \E id \in NoteIds \ DOMAIN notes, data \in CreateNoteDTOs :
        /\ repo = "notes"
        /\ NoteCall("create", id, data.ownerId, data,
                 NoteCreate(notes, id, data, clock), NoRow)

NoteUpdateCall ==
    \E id \in NoteIds, data \in UpdateNoteDTOs :
        /\ repo = "notes"
        /\ NoteCall("update", id, NULL, data, NoteUpdate(notes, id, data, clock), NoRow)

NoteUpsertCall ==
    \E id \in NoteIds, o \in Owners, data \in UpsertNoteDatas :
        /\ repo = "notes"
        /\ NoteCall("upsert", id, o, data, NoteUpsert(notes, id, o, data, clock),
                 RowOf(notes, id))

NoteBulkUpsertCall ==
    \E batch \in NoteBatches :
        /\ repo = "notes"
        /\ NoteCall("bulkUpsert", NULL, NULL, batch,
                 NoteBulkUpsert(notes, batch, clock), NoRow)

NoteSoftDeleteCall ==
    \E id \in NoteIds, o \in Owners :
        /\ repo = "notes"
        /\ NoteCall("softDelete", id, o, EmptyDTO,
                 NoteSoftDelete(notes, id, o, clock), RowOf(notes, id))

NoteRestoreCall ==
    \E id \in NoteIds, o \in Owners :
        /\ repo = "notes"
        /\ NoteCall("restore", id, o, EmptyDTO,
                 NoteRestore(notes, id, o, clock), RowOf(notes, id))

NotePermanentDeleteCall ==
    \E id \in NoteIds, o \in Owners :
        /\ repo = "notes"
        /\ NoteCall("permanentDelete", id, o, EmptyDTO,
                 NotePermanentDelete(notes, id, o), RowOf(notes, id))

NoteUpdateFolderReferenceCall ==
    \E f \in MovedFolders, o \in Owners, g \in NewFolders :
        /\ repo = "notes"
        /\ NoteCall("updateFolderReference", f, o, [newFolderId |-> g],
                 NoteUpdateFolderReference(notes, f, o, g, clock), NoRow)

\* a listing call: what it returns and the statements it sends
Listed(tbl, ret, stmts) == Outcome(tbl, FALSE, ret) @@ [sent |-> stmts]

NoteListing(tbl, q) ==
    CASE q.op = "findAll" ->
            Listed(tbl, NoteFindAll(tbl, q.options), NoteFindAllStatements(q.options))
      [] q.op = "findByOwnerId" ->
            Listed(tbl, NoteFindByOwnerId(tbl, q.owner, q.options),
                   <<NoteFindByOwnerIdStatement(q.owner, q.options)>>)
      [] q.op = "findWithFilter" ->
            Listed(tbl, NoteFindWithFilter(tbl, q.options),
                   NoteFindWithFilterStatements(q.options))

\* findAll, findByOwnerId, findWithFilter: read-only
NoteFindCall ==
    \E q \in Queries :
        /\ repo = "notes"
        /\ NoteCall(q.op, NULL, q.owner, q.options, NoteListing(notes, q), NoRow)

FolderCreateCall ==
    \E id \in FolderIds \ DOMAIN folders, data \in CreateFolderDTOs :
        /\ repo = "folders"
        /\ FolderCall("create", id, data.ownerId, data,
                   FolderCreate(folders, id, data, clock), NoRow)

FolderUpdateCall ==
    \E id \in FolderIds, data \in UpdateFolderDTOs :
        /\ repo = "folders"
        /\ FolderCall("update", id, NULL, data,
                   FolderUpdate(folders, id, data, clock), NoRow)

FolderUpsertCall ==
    \E id \in FolderIds, o \in Owners, data \in UpsertFolderDatas :
        /\ repo = "folders"
        /\ FolderCall("upsert", id, o, data,
                   FolderUpsert(folders, id, o, data, clock), RowOf(folders, id))

FolderBulkUpsertCall ==
    \E batch \in FolderBatches :
        /\ repo = "folders"
        /\ FolderCall("bulkUpsert", NULL, NULL, batch,
                   FolderBulkUpsert(folders, batch, clock), NoRow)

FolderSoftDeleteCall ==
    \E id \in FolderIds, o \in Owners :
        /\ repo = "folders"
        /\ FolderCall("softDelete", id, o, EmptyDTO,
                   FolderSoftDelete(folders, id, o, clock), RowOf(folders, id))

FolderRestoreCall ==
    \E id \in FolderIds, o \in Owners :
        /\ repo = "folders"
        /\ FolderCall("restore", id, o, EmptyDTO,
                   FolderRestore(folders, id, o, clock), RowOf(folders, id))

FolderPermanentDeleteCall ==
    \E id \in FolderIds, o \in Owners :
        /\ repo = "folders"
        /\ FolderCall("permanentDelete", id, o, EmptyDTO,
                   FolderPermanentDelete(folders, id, o), RowOf(folders, id))

FolderListing(tbl, q) ==
    CASE q.op = "findAll" ->
            Listed(tbl, FolderFindAll(tbl, q.options),
                   FolderFindAllStatements(q.options))
      [] q.op = "findByOwnerId" ->
            Listed(tbl, FolderFindByOwnerId(tbl, q.owner, q.options),
                   <<FolderFindByOwnerIdStatement(q.owner, q.options)>>)
      [] q.op = "findWithFilter" ->
            Listed(tbl, FolderFindWithFilter(tbl, q.options),
                   FolderFindWithFilterStatements(q.options))

FolderFindCall ==
    \E q \in Queries :
        /\ repo = "folders"
        /\ FolderCall(q.op, NULL, q.owner, q.options, FolderListing(folders, q),
                   NoRow)

UserListing(tbl, q) ==
    CASE q.op = "findAll" ->
            Listed(tbl, UserFindAll(tbl, q.options), UserFindAllStatements(q.options))
      [] q.op = "findWithFilter" ->
            Listed(tbl, UserFindWithFilter(tbl, q.options),
                   UserFindWithFilterStatements(q.options))

\* uuidv4() yields an id no row has
UserCreateCall ==
    \E id \in UserIds \ DOMAIN users, data \in CreateUserDTOs :
        \E generated \in GeneratedUsernames(LocalPart(data)) :
            /\ repo = "users"
            /\ UserCall("create", id, data,
                     UserCreate(users, id, data, generated, clock), NoRow)

UserUpdateCall ==
    \E id \in UserIds, data \in UpdateUserDTOs :
        /\ repo = "users"
        /\ UserCall("update", id, data, UserUpdate(users, id, data, clock),
                 RowOf(users, id))

UserSuspendCall ==
    \E id \in UserIds, reason \in Reasons :
        /\ repo = "users"
        /\ UserCall("suspendUser", id, [reason |-> reason],
                 suspendUser(users, id, reason, clock), RowOf(users, id))

UserUnsuspendCall ==
    \E id \in UserIds :
        /\ repo = "users"
        /\ UserCall("unsuspendUser", id, EmptyDTO,
                 unsuspendUser(users, id, clock), RowOf(users, id))

UserUpsertCall ==
    \E id \in UserIds, data \in UpsertUserDatas :
        /\ repo = "users"
        /\ UserCall("upsert", id, data, UserUpsert(users, id, data, clock),
                 RowOf(users, id))

UserBulkUpsertCall ==
    \E batch \in UserBatches :
        \E order \in Orders(batch) :
            /\ repo = "users"
            /\ UserCall("bulkUpsert", NULL, batch,
                     UserBulkUpsert(users, batch, order, clock), NoRow)

Next ==
    \/ NoteCreateCall
    \/ NoteUpdateCall
    \/ NoteUpsertCall
    \/ NoteBulkUpsertCall
    \/ NoteSoftDeleteCall
    \/ NoteRestoreCall
    \/ NotePermanentDeleteCall
    \/ NoteUpdateFolderReferenceCall
    \/ NoteFindCall
    \/ FolderCreateCall
    \/ FolderUpdateCall
    \/ FolderUpsertCall
    \/ FolderBulkUpsertCall
    \/ FolderSoftDeleteCall
    \/ FolderRestoreCall
    \/ FolderPermanentDeleteCall
    \/ FolderFindCall
    \/ UserCreateCall
    \/ UserUpdateCall
    \/ UserSuspendCall
    \/ UserUnsuspendCall
    \/ UserUpsertCall
    \/ UserBulkUpsertCall

Spec == Init /\ [][Next]_vars

-----------------------------------------------------------------------------
(* Concurrent callers on one note: every caller runs one operation, and the *)
(* statements of the callers reach the store in any order                    *)

Procs == 1 .. MaxProcs
ConcurrentOps ==
    <<"incrementViews", "addComment", "addVersion", "update", "softDelete", "restore">>
TheNote == "n1"
NoneCalled ==
    [op |-> "none", id |-> NULL, owner |-> NULL, data |-> EmptyDTO,
     raised |-> FALSE, ret |-> 0, failed |-> {}, pre |-> NoRow]

\* the callers, up to their order
Callers ==
    {f \in [Procs -> DOMAIN ConcurrentOps] :
        \A p \in Procs, q \in Procs : p < q => f[p] <= f[q]}

InitViews ==
    /\ \E data \in CreateNoteDTOs :
          notes = (TheNote :> NoteCreateRow(TheNote, data, 0))
    /\ folders = <<>>
    /\ users = <<>>
    /\ clock = 1
    /\ repo = "notes"
    /\ last = NoneCalled
    /\ pool = NoPool
    /\ call = NoCall
    /\ sent = <<>>
    /\ \E f \in Callers :
          procs = [p \in Procs |->
                     [op |-> ConcurrentOps[f[p]], pc |-> "start", read |-> NoRow]]

\* caller p moves to pc; the store took one statement
Step(p, pc, read) ==
    /\ procs' = [procs EXCEPT ![p].pc = pc, ![p].read = read]
    /\ clock' = clock + 1
    /\ UNCHANGED <<folders, users, repo, pool, call, sent, last>>

At(p, op, pc) == procs[p].op = op /\ procs[p].pc = pc

IncrementViewsStep(p) ==
    /\ At(p, "incrementViews", "start")
    /\ notes' = NoteIncrementViews(notes, TheNote).tbl
    /\ Step(p, "done", NoRow)

\* findById of addComment, addVersion and softDelete; the entry a caller
\* adds to a log is named after the caller
FindByIdStep(p) ==
    /\ procs[p].op \in {"addComment", "addVersion", "softDelete"}
    /\ procs[p].pc = "start"
    /\ UNCHANGED notes
    /\ Step(p, "read", RowOf(notes, TheNote))

AddCommentWriteStep(p) ==
    /\ At(p, "addComment", "read")
    /\ notes' = NoteAddCommentWrite(notes, TheNote, rowToNote(procs[p].read), p, clock)
    /\ Step(p, "done", procs[p].read)

AddVersionWriteStep(p) ==
    /\ At(p, "addVersion", "read")
    /\ notes' = NoteAddVersionWrite(notes, TheNote, rowToNote(procs[p].read), p, clock)
    /\ Step(p, "done", procs[p].read)

UpdateStep(p) ==
    /\ At(p, "update", "start")
    /\ \E data \in UpdateNoteDTOs :
          notes' = NoteUpdate(notes, TheNote, data, clock).tbl
    /\ Step(p, "done", NoRow)

\* the UPDATE of softDelete, once findById has shown the owner's note
SoftDeleteWriteStep(p) ==
    /\ At(p, "softDelete", "read")
    /\ notes' = NoteSoftDelete(notes, TheNote, procs[p].read.owner_id, clock).tbl
    /\ Step(p, "done", NoRow)

RestoreStep(p) ==
    /\ At(p, "restore", "start")
    /\ notes' = NoteRestore(notes, TheNote, notes[TheNote].owner_id, clock).tbl
    /\ Step(p, "done", NoRow)

NextViews ==
    \E p \in Procs :
        \/ IncrementViewsStep(p)
        \/ FindByIdStep(p)
        \/ AddCommentWriteStep(p)
        \/ AddVersionWriteStep(p)
        \/ UpdateStep(p)
        \/ SoftDeleteWriteStep(p)
        \/ RestoreStep(p)

SpecViews == InitViews /\ [][NextViews]_vars

-----------------------------------------------------------------------------
(* Listings over a store that earlier sessions have filled *)

\* rows as create and softDelete leave them
NoteSamples ==
    {NoteCreateRow("n1", [ownerId |-> "u1", title |-> "T", content |-> "C",
                          tags |-> <<"x">>], 1),
     NoteSoftDeleteRow(
        NoteCreateRow("n2", [ownerId |-> "u1", title |-> "T", content |-> "C",
                             folderId |-> "f1", visibility |-> "public",
                             tags |-> <<"y">>], 1), 2),
     NoteCreateRow("n3", [ownerId |-> "u2", title |-> "T", content |-> "C",
                          folderId |-> "f1", tags |-> <<"x", "y">>], 2),
     NoteCreateRow("n4", [ownerId |-> "u2", title |-> "T", content |-> "C",
                          folderId |-> "f2", visibility |-> "public"], 2)}

FolderSamples ==
    {FolderCreateRow("f1", [ownerId |-> "u1", name |-> "F", color |-> "#fff"], 1),
     FolderSoftDeleteRow(
        FolderCreateRow("f2", [ownerId |-> "u1", name |-> "G", color |-> "#fff"], 1), 2),
     FolderCreateRow("f3", [ownerId |-> "u2", name |-> "F", color |-> "#fff"], 2)}

UserSamples ==
    {UserCreateRow("a1", [email |-> <<"b", "x">>, password |-> "pw", name |-> "N"],
                   "b_k3x9", 1),
     UserCreateRow("a2", [email |-> <<"c", "x">>, password |-> "pw", name |-> "M",
                          username |-> "bob", role |-> "admin"], "c_k3x9", 2),
     UserCreateRow("a3", [email |-> <<"d", "x">>, password |-> "pw", name |-> "N",
                          username |-> "d"], "d_k3x9", 2)}

\* the tables holding some of the rows
TablesOf(samples) ==
    {[i \in {r.id : r \in rows} |-> CHOOSE r \in rows : r.id = i] :
        rows \in SUBSET samples}

\* filters of the note listings
NoteFilters ==
    {o \cup d \cup f \cup v \cup t :
        o \in {{}, {<<"ownerId", "u1">>}, {<<"ownerId", "">>}},
        d \in {{}, {<<"includeDeleted", TRUE>>}, {<<"onlyDeleted", TRUE>>},
                 {<<"includeDeleted", TRUE>>, <<"onlyDeleted", TRUE>>}},
        f \in {{}, {<<"folderId", NULL>>}, {<<"folderId", "f1">>}},
        v \in {{}, {<<"visibility", "public">>}},
        t \in {{}, {<<"tags", <<>> >>}, {<<"tags", <<"x">> >>},
                 {<<"tags", <<"y", "z">> >>}}}

\* pages and orderings a caller asks for
Pages ==
    {{}, {<<"limit", 1>>}, {<<"limit", 1>>, <<"offset", 1>>}, {<<"offset", 5>>}}

Orderings ==
    {{<<"orderBy", "created_at">>, <<"orderDirection", "ASC">>},
     {<<"orderBy", "created_at">>},
     {<<"orderBy", "created_at">>, <<"orderDirection", "ASC; DELETE FROM users">>},
     {<<"orderBy", "(SELECT 1)">>, <<"orderDirection", "ASC">>}}

\* the options object holding the given properties
Options(props) == [f \in {pr[1] : pr \in props} |-> (CHOOSE pr \in props : pr[1] = f)[2]]

NoteQueries ==
    {[op |-> op, owner |-> "u1", options |-> Options(f \cup p)] :
        op \in {"findByOwnerId", "findWithFilter"}, f \in NoteFilters, p \in Pages}
    \cup {[op |-> op, owner |-> "u1", options |-> Options(p)] :
            op \in {"findAll", "findByOwnerId", "findWithFilter"},
            p \in Pages \cup Orderings}

FolderQueries ==
    {[op |-> op, owner |-> "u1", options |-> Options(o \cup d \cup p)] :
        op \in {"findAll", "findByOwnerId", "findWithFilter"},
        o \in {{}, {<<"ownerId", "u1">>}},
        d \in {{}, {<<"includeDeleted", TRUE>>}, {<<"onlyDeleted", TRUE>>}},
        p \in Pages \cup Orderings}

UserQueries ==
    {[op |-> op, owner |-> NULL, options |-> Options(f \cup r \cup p)] :
        op \in {"findAll", "findWithFilter"},
        f \in {{}, {<<"search", "b">>}},
        r \in {{}, {<<"role", "admin">>}},
        p \in Pages \cup Orderings}

\* the store as earlier sessions left it, with one call to go
InitQuery ==
    /\ repo \in {"notes", "folders", "users"}
    /\ notes \in IF repo = "notes" THEN TablesOf(NoteSamples) ELSE {<<>>}
    /\ folders \in IF repo = "folders" THEN TablesOf(FolderSamples) ELSE {<<>>}
    /\ users \in IF repo = "users" THEN TablesOf(UserSamples) ELSE {<<>>}
    /\ clock = MaxCalls
    /\ procs = <<>>
    /\ pool = NoPool
    /\ call = NoCall
    /\ sent = <<>>
    /\ last = NoneCalled

NoteQueryCall ==
    \E q \in NoteQueries :
        /\ repo = "notes" /\ clock <= MaxCalls
        /\ NoteCall(q.op, NULL, q.owner, q.options, NoteListing(notes, q), NoRow)

FolderQueryCall ==
    \E q \in FolderQueries :
        /\ repo = "folders" /\ clock <= MaxCalls
        /\ FolderCall(q.op, NULL, q.owner, q.options, FolderListing(folders, q),
                   NoRow)

UserQueryCall ==
    \E q \in UserQueries :
        /\ repo = "users" /\ clock <= MaxCalls
        /\ UserCall(q.op, NULL, q.options, UserListing(users, q), NoRow)

NextQuery ==
    \/ NoteQueryCall
    \/ FolderQueryCall
    \/ UserQueryCall

SpecQuery == InitQuery /\ [][NextQuery]_vars

-----------------------------------------------------------------------------
(* withTransaction and healthCheck, one call at a time, every await ending in *)
(* any of the ways the server and the network allow                          *)

InitTx ==
    /\ notes = <<>>
    /\ folders = <<>>
    /\ users = <<>>
    /\ clock = 1
    /\ repo = "folders"
    /\ procs = <<>>
    /\ pool = NoPool
    /\ call = NoCall
    /\ sent = <<>>
    /\ last = NoneCalled

TxFrame == UNCHANGED <<notes, users, repo, procs, sent, last>>

\* POST /api/raw/transaction: withTransaction(fn), fn running the queries
WithTransactionCall ==
    /\ call.kind = "none" /\ clock <= MaxCalls
    /\ \E qs \in TxQueries :
          call' = [NoCall EXCEPT !.kind = "tx", !.pc = "getConnection",
                                 !.queries = qs, !.before = folders]
    /\ clock' = clock + 1
    /\ UNCHANGED <<folders, pool>> /\ TxFrame

\* const connection = await getConnection(), outside the try block
TxGetConnection ==
    /\ call.kind = "tx" /\ call.pc = "getConnection" /\ pool.inUse < PoolMax
    /\ \/ /\ pool' = PoolAcquire(pool)
          /\ call' = [call EXCEPT !.pc = "begin", !.gotConnection = TRUE]
       \/ /\ pool' = pool
          /\ call' = [call EXCEPT !.pc = "raised", !.cause = "getConnection",
                                  !.error = "getConnection", !.raised = TRUE]
    /\ UNCHANGED <<folders, clock>> /\ TxFrame

TxBeginTransaction ==
    /\ call.kind = "tx" /\ call.pc = "begin"
    /\ \E out \in Outcomes :
          call' = IF out = "ok" THEN [call EXCEPT !.pc = "fn"]
                  ELSE TxFail(call, "beginTransaction", out)
    /\ UNCHANGED <<folders, pool, clock>> /\ TxFrame

\* one conn.execute of fn; after the last one fn returns
TxExecute ==
    /\ call.kind = "tx" /\ call.pc = "fn"
    /\ \E out \in Outcomes :
          LET id == call.queries[call.k]
              seen == call.pending @@ folders
          IN  call' =
                IF out = "ok" /\ id \notin DOMAIN seen
                THEN [call EXCEPT
                        !.pending = @ @@ (id :> FolderUpsertRow(id, "u1", EmptyDTO, clock)),
                        !.k = @ + 1,
                        !.pc = IF call.k = Len(call.queries) THEN "commit" ELSE "fn"]
                ELSE TxFail(call, "fn", out)
    /\ UNCHANGED <<folders, pool, clock>> /\ TxFrame

TxCommitStep ==
    /\ call.kind = "tx" /\ call.pc = "commit"
    /\ \E out \in Outcomes :
          IF out = "ok"
          THEN /\ folders' = call.pending @@ folders
               /\ call' = [call EXCEPT !.pc = "release", !.commitIssued = TRUE,
                                       !.pending = <<>>]
          ELSE /\ folders' = folders
               /\ call' = [TxFail(call, "commit", out) EXCEPT !.commitIssued = TRUE]
    /\ UNCHANGED <<pool, clock>> /\ TxFrame

TxRollbackStep ==
    /\ call.kind = "tx" /\ call.pc = "rollback"
    /\ call' = TxCatch(call)
    /\ UNCHANGED <<folders, pool, clock>> /\ TxFrame

\* finally: connection.release(); then the result or the error reaches the caller
TxRelease ==
    /\ call.kind = "tx" /\ call.pc = "release"
    /\ pool' = PoolRelease(pool)
    /\ call' = IF call.error = "none" THEN [call EXCEPT !.pc = "returned", !.ret = TRUE]
               ELSE [call EXCEPT !.pc = "raised", !.raised = TRUE]
    /\ UNCHANGED <<folders, clock>> /\ TxFrame

\* GET /api/raw/health: healthCheck()
HealthCheckCall ==
    /\ call.kind = "none" /\ clock <= MaxCalls
    /\ call' = [NoCall EXCEPT !.kind = "hc", !.pc = "getConnection"]
    /\ clock' = clock + 1
    /\ UNCHANGED <<folders, pool>> /\ TxFrame

HcGetConnection ==
    /\ call.kind = "hc" /\ call.pc = "getConnection" /\ pool.inUse < PoolMax
    /\ \/ /\ pool' = PoolAcquire(pool)
          /\ call' = [call EXCEPT !.pc = "ping", !.gotConnection = TRUE]
       \/ /\ pool' = pool
          /\ call' = HealthCheckCatch(call)
    /\ UNCHANGED <<folders, clock>> /\ TxFrame

HcPing ==
    /\ call.kind = "hc" /\ call.pc = "ping"
    /\ \E out \in Outcomes :
          call' = IF out = "ok" THEN [call EXCEPT !.pc = "release", !.pingOk = TRUE]
                  ELSE HealthCheckCatch(call)
    /\ UNCHANGED <<folders, pool, clock>> /\ TxFrame

HcRelease ==
    /\ call.kind = "hc" /\ call.pc = "release"
    /\ pool' = PoolRelease(pool)
    /\ call' = [call EXCEPT !.pc = "returned", !.ret = TRUE]
    /\ UNCHANGED <<folders, clock>> /\ TxFrame

\* MySQLAdapter.connect(): getPool, getConnection, ping, release; an error
\* of getConnection or ping propagates to the caller
ConnectCall ==
    /\ call.kind = "none" /\ clock <= MaxCalls
    /\ call' = [NoCall EXCEPT !.kind = "connect", !.pc = "getConnection"]
    /\ clock' = clock + 1
    /\ UNCHANGED <<folders, pool>> /\ TxFrame

ConnectGetConnection ==
    /\ call.kind = "connect" /\ call.pc = "getConnection" /\ pool.inUse < PoolMax
    /\ \/ /\ pool' = PoolAcquire(pool)
          /\ call' = [call EXCEPT !.pc = "ping", !.gotConnection = TRUE]
       \/ /\ pool' = pool
          /\ call' = [call EXCEPT !.pc = "raised", !.error = "getConnection",
                                  !.raised = TRUE]
    /\ UNCHANGED <<folders, clock>> /\ TxFrame

ConnectPing ==
    /\ call.kind = "connect" /\ call.pc = "ping"
    /\ \E out \in Outcomes :
          call' = IF out = "ok" THEN [call EXCEPT !.pc = "release", !.pingOk = TRUE]
                  ELSE [call EXCEPT !.pc = "raised", !.error = "ping", !.raised = TRUE]
    /\ UNCHANGED <<folders, pool, clock>> /\ TxFrame

ConnectRelease ==
    /\ call.kind = "connect" /\ call.pc = "release"
    /\ pool' = PoolRelease(pool)
    /\ call' = [call EXCEPT !.pc = "returned", !.ret = TRUE]
    /\ UNCHANGED <<folders, clock>> /\ TxFrame

\* the caller has its answer
CallOver ==
    /\ call.pc \in {"returned", "raised"}
    /\ call' = NoCall
    /\ UNCHANGED <<folders, pool, clock>> /\ TxFrame

NextTx ==
    \/ WithTransactionCall
    \/ TxGetConnection
    \/ TxBeginTransaction
    \/ TxExecute
    \/ TxCommitStep
    \/ TxRollbackStep
    \/ TxRelease
    \/ HealthCheckCall
    \/ HcGetConnection
    \/ HcPing
    \/ HcRelease
    \/ ConnectCall
    \/ ConnectGetConnection
    \/ ConnectPing
    \/ ConnectRelease
    \/ CallOver

SpecTx == InitTx /\ [][NextTx]_vars

-----------------------------------------------------------------------------
(* Properties *)

\* this step completes a call
Called == clock' # clock
Active(row) == row # NoRow /\ row.is_deleted = 0
Trashed(row) == row # NoRow /\ row.is_deleted = 1
OwnedBy(row, owner) == row # NoRow /\ row.owner_id = owner

\* C1: softDelete(id, owner) of an active note by its owner leaves folderId
\* null, pinned and favorite false and isDeleted true; restore(id, owner) right
\* after it yields the folderId, pinned and favorite the note had before the
\* softDelete, and isDeleted false.
NoteTrashRestoreRoundTrip ==
    [][/\ (/\ Called /\ repo = "notes" /\ last'.op = "softDelete"
           /\ Active(last'.pre) /\ OwnedBy(last'.pre, last'.owner))
          => LET n == rowToNote(notes'[last'.id])
             IN  /\ n.folderId = NULL /\ ~n.pinned /\ ~n.favorite /\ n.isDeleted
       /\ (/\ Called /\ repo = "notes"
           /\ last.op = "softDelete" /\ Active(last.pre) /\ OwnedBy(last.pre, last.owner)
           /\ last'.op = "restore" /\ last'.id = last.id /\ last'.owner = last.owner)
          => LET before == rowToNote(last.pre)
                 between == rowToNote(notes[last.id])
                 after == rowToNote(notes'[last.id])
             IN  /\ between.folderId = NULL /\ ~between.pinned
                 /\ ~between.favorite /\ between.isDeleted
                 /\ after.folderId = before.folderId
                 /\ after.pinned = before.pinned
                 /\ after.favorite = before.favorite
                 /\ ~after.isDeleted]_vars

\* a note that had a folder and was pinned is back in it, pinned, after the round trip
NoteTrashRestoreRoundTripWitness ==
    /\ repo = "notes" /\ last.op = "restore"
    /\ Trashed(last.pre) /\ OwnedBy(last.pre, last.owner)
    /\ last.pre.original_folder_id = "f1" /\ last.pre.original_pinned = 1
    /\ notes[last.id].folder_id = "f1" /\ notes[last.id].pinned = 1
    /\ notes[last.id].is_deleted = 0

\* C2: a note with isDeleted=true has folderId=null, pinned=false and
\* favorite=false; a note with isDeleted=false has originalFolderId,
\* originalPinned and originalFavorite unset.
NoteDeletedStateInvariant ==
    \A id \in DOMAIN notes :
        LET n == rowToNote(notes[id])
        IN  /\ n.isDeleted => (n.folderId = NULL /\ ~n.pinned /\ ~n.favorite)
            /\ ~n.isDeleted => /\ n.originalFolderId = NULL
                               /\ ~Has(n, "originalPinned")
                               /\ ~Has(n, "originalFavorite")

\* C3: a second softDelete(id, owner), right after the one that trashed the
\* note, leaves originalFolderId, originalPinned and originalFavorite as the
\* first one set them.
NoteSoftDeleteOnlyFromActive ==
    [][(/\ Called /\ repo = "notes"
        /\ last.op = "softDelete" /\ Active(last.pre) /\ OwnedBy(last.pre, last.owner)
        /\ last'.op = "softDelete" /\ last'.id = last.id /\ last'.owner = last.owner)
       => /\ notes'[last'.id].original_folder_id = notes[last'.id].original_folder_id
          /\ notes'[last'.id].original_pinned = notes[last'.id].original_pinned
          /\ notes'[last'.id].original_favorite = notes[last'.id].original_favorite]_vars

\* C4: restore(id, owner) on an active note leaves folderId, pinned and
\* favorite unchanged.
NoteRestoreOnlyFromTrashed ==
    [][(/\ Called /\ repo = "notes" /\ last'.op = "restore" /\ Active(last'.pre))
       => /\ notes'[last'.id].folder_id = notes[last'.id].folder_id
          /\ notes'[last'.id].pinned = notes[last'.id].pinned
          /\ notes'[last'.id].favorite = notes[last'.id].favorite]_vars

\* C5: softDelete and restore, on notes and on folders, change no row and do
\* not raise when no row has the id or the row belongs to another owner.
SoftDeleteRestoreIgnoreForeign ==
    [][(/\ Called /\ last'.op \in {"softDelete", "restore"}
        /\ ~OwnedBy(last'.pre, last'.owner))
       => /\ notes' = notes /\ folders' = folders /\ ~last'.raised]_vars

\* restore was called on a trashed note by someone who does not own it
SoftDeleteRestoreIgnoreForeignWitness ==
    /\ repo = "notes" /\ last.op = "restore"
    /\ Trashed(last.pre) /\ ~OwnedBy(last.pre, last.owner)
    /\ notes[last.id] = last.pre

\* the options of a listing call, with and without the deleted-state flags
PageOptions == {EmptyDTO, [limit |-> 1], [limit |-> 1, offset |-> 1],
                [orderBy |-> "created_at", orderDirection |-> "ASC"]}
DefaultListOptions ==
    PageOptions \cup {[includeDeleted |-> FALSE], [onlyDeleted |-> FALSE],
                      [folderId |-> NULL], [ownerId |-> "u1"],
                      [ownerId |-> "u2", includeDeleted |-> FALSE]}
OnlyDeletedListOptions ==
    {[onlyDeleted |-> TRUE], [onlyDeleted |-> TRUE, includeDeleted |-> TRUE],
     [onlyDeleted |-> TRUE, ownerId |-> "u1"], [onlyDeleted |-> TRUE, limit |-> 1]}

AllOf(rows, deleted) == \A k \in DOMAIN rows : rows[k].isDeleted = deleted

\* C6: findAll, findByOwnerId and findWithFilter of notes and folders, called
\* without includeDeleted and onlyDeleted, return no row with isDeleted=true;
\* findByOwnerId and findWithFilter with onlyDeleted=true return only such rows.
ListingsRespectDeletedState ==
    /\ \A opt \in PageOptions :
        /\ AllOf(NoteFindAll(notes, opt).data, FALSE)
        /\ AllOf(FolderFindAll(folders, opt).data, FALSE)
    /\ \A opt \in DefaultListOptions :
        /\ AllOf(NoteFindWithFilter(notes, opt).data, FALSE)
        /\ AllOf(FolderFindWithFilter(folders, opt).data, FALSE)
        /\ \A o \in Owners :
            /\ AllOf(NoteFindByOwnerId(notes, o, opt), FALSE)
            /\ AllOf(FolderFindByOwnerId(folders, o, opt), FALSE)
    /\ \A opt \in OnlyDeletedListOptions :
        /\ AllOf(NoteFindWithFilter(notes, opt).data, TRUE)
        /\ AllOf(FolderFindWithFilter(folders, opt).data, TRUE)
        /\ \A o \in Owners :
            /\ AllOf(NoteFindByOwnerId(notes, o, opt), TRUE)
            /\ AllOf(FolderFindByOwnerId(folders, o, opt), TRUE)

\* a default findAll returned the one active note of a table that also holds a
\* trashed note
ListingsRespectDeletedStateWitness ==
    /\ repo = "notes" /\ last.op = "findAll" /\ last.data = EmptyDTO
    /\ Len(last.ret.data) = 1 /\ last.ret.data[1].isDeleted = FALSE
    /\ \E i \in DOMAIN notes : notes[i].is_deleted = 1

\* C7: in every repository, a second upsert(id, owner, X) right after the same
\* call leaves the row as the first call left it, in every column, the updated
\* timestamp included.
UpsertIdempotent ==
    [][(/\ Called /\ last.op = "upsert" /\ last'.op = "upsert"
        /\ last'.id = last.id /\ last'.owner = last.owner /\ last'.data = last.data
        /\ ~last.raised /\ ~last'.raised)
       => /\ notes' = notes /\ folders' = folders /\ users' = users]_vars

\* the element's upsert fails on the table as the batch finds it: the owner is
\* missing, or the id is taken by a row of another owner
ElementFails(tbl, elt) ==
    \/ ~Has(elt, "ownerId")
    \/ elt.id \in DOMAIN tbl /\ tbl[elt.id].owner_id # elt.ownerId
FailSet(tbl, batch) == {k \in DOMAIN batch : ElementFails(tbl, batch[k])}

\* the element's row is in the table under its owner, with the fields it carries
NotePersisted(tbl, elt) ==
    /\ elt.id \in DOMAIN tbl
    /\ tbl[elt.id].owner_id = elt.ownerId
    /\ tbl[elt.id].title = elt.title
    /\ Has(elt, "favorite") => tbl[elt.id].favorite = Bit(elt, "favorite")
FolderPersisted(tbl, elt) ==
    /\ elt.id \in DOMAIN tbl
    /\ tbl[elt.id].owner_id = elt.ownerId
    /\ tbl[elt.id].name = elt.name

UserPersisted(tbl, elt) ==
    /\ Has(elt, "id") /\ elt.id \in DOMAIN tbl
    /\ tbl[elt.id].name = elt.name
    /\ Has(elt, "username") => tbl[elt.id].username = elt.username
    /\ Has(elt, "email") => tbl[elt.id].email = elt.email
\* the element is persisted in the table of the session's repository
PersistedNext(elt) ==
    CASE repo = "notes" -> NotePersisted(notes', elt)
      [] repo = "folders" -> FolderPersisted(folders', elt)
      [] repo = "users" -> UserPersisted(users', elt)

\* C8: bulkUpsert of the Account, Note and Folder repositories never raises
\* because an element fails: with F the elements whose upsert fails it returns
\* N - |F| and every element outside F is persisted.
BulkUpsertIsolatesFailures ==
    [][(Called /\ last'.op = "bulkUpsert")
       => LET batch == last'.data
              F == last'.failed
          IN  /\ ~last'.raised
              /\ last'.ret = Len(batch) - Cardinality(F)
              /\ \A k \in DOMAIN batch \ F : PersistedNext(batch[k])]_vars

\* C8 as amended: bulkUpsert of the Account and Note repositories never raises
\* because an element fails: with F the elements whose upsert is rejected it
\* returns N - |F| and every element outside F is persisted.  An element
\* without its key is in F; for notes F is the set of elements that have no
\* owner or whose id another owner holds, and their rows stay as they were.
SettledBulkUpsertIsolatesFailures ==
    [][(Called /\ repo \in {"notes", "users"} /\ last'.op = "bulkUpsert")
       => LET batch == last'.data
              F == last'.failed
          IN  /\ ~last'.raised
              /\ last'.ret = Len(batch) - Cardinality(F)
              /\ \A k \in DOMAIN batch \ F : PersistedNext(batch[k])
              /\ repo = "users" =>
                    \A k \in DOMAIN batch : ~Has(batch[k], "id") => k \in F
              /\ repo = "notes" =>
                    /\ F = FailSet(notes, batch)
                    /\ \A k \in F :
                          RowOf(notes', batch[k].id) = RowOf(notes, batch[k].id)]_vars

\* a batch whose first element failed and whose second element was inserted
SettledBulkUpsertIsolatesFailuresWitness ==
    /\ repo = "notes" /\ last.op = "bulkUpsert" /\ ~last.raised
    /\ Len(last.data) = 2 /\ last.ret = 1 /\ last.failed = {1}
    /\ ~Has(last.data[1], "ownerId")
    /\ NotePersisted(notes, last.data[2])
    /\ notes[last.data[2].id].created_at = clock - 1

\* C9: when an upsert of Folder bulkUpsert fails, the writes made for the
\* earlier elements of the call are rolled back: the table is as before the call.
FolderBulkUpsertAllOrNothing ==
    [][(Called /\ repo = "folders" /\ last'.op = "bulkUpsert" /\ last'.raised)
       => folders' = folders]_vars

\* C10: resubmitting the batch of a bulkUpsert in which some elements failed
\* leaves the rows of the elements the first call applied unchanged in every column.
BulkUpsertRetryKeepsApplied ==
    [][(/\ Called /\ repo = "notes"
        /\ last.op = "bulkUpsert" /\ last.ret < Len(last.data)
        /\ last'.op = "bulkUpsert" /\ last'.data = last.data)
       => \A k \in DOMAIN last.data :
            LET elt == last.data[k]
            IN  (Has(elt, "ownerId") /\ OwnedBy(RowOf(notes, elt.id), elt.ownerId))
                => notes'[elt.id] = notes[elt.id]]_vars

\* the callers of incrementViews that have completed
ViewsCompleted ==
    {p \in DOMAIN procs : procs[p].op = "incrementViews" /\ procs[p].pc = "done"}

\* C11: M incrementViews calls on one note, interleaved in any order with each
\* other and with update, addComment, addVersion, softDelete and restore on that
\* note, raise its views counter by exactly M: at every moment the counter is
\* the number of incrementViews calls completed so far.
IncrementViewsLosesNothing ==
    notes[TheNote].views = Cardinality(ViewsCompleted)

\* two incrementViews and an addComment have all completed, the write of
\* addComment last
IncrementViewsLosesNothingWitness ==
    /\ \A p \in Procs : procs[p].pc = "done"
    /\ Cardinality(ViewsCompleted) = 2
    /\ notes[TheNote].views = 2
    /\ Len(notes[TheNote].comments) = 1
    /\ notes[TheNote].updated_at = clock - 1

\* C12: withTransaction(fn) issues commit if and only if beginTransaction and
\* fn completed without error; when beginTransaction, fn or commit fails it
\* rolls back and raises that same error, and none of the statements fn ran
\* remains in the store.
WithTransactionRaisesCause ==
    (call.kind = "tx" /\ call.pc \in {"returned", "raised"} /\ call.gotConnection)
    => /\ call.commitIssued <=> call.cause \in {"none", "commit"}
       /\ call.cause # "none" =>
            /\ call.rollbackIssued
            /\ call.raised /\ call.error = call.cause
            /\ folders = call.before

\* C13: healthCheck() never raises: it returns true when a connection is
\* obtained and the ping succeeds, and false when the pool cannot produce a
\* connection or the ping fails.
HealthCheckNeverRaises ==
    (call.kind = "hc" /\ call.pc = "returned")
    => /\ ~call.raised
       /\ call.ret <=> (call.gotConnection /\ call.pingOk)

\* healthCheck got its connection, the ping failed, and it returned false
HealthCheckNeverRaisesWitness ==
    /\ call.kind = "hc" /\ call.pc = "returned"
    /\ call.gotConnection /\ ~call.pingOk /\ ~call.ret /\ ~call.raised

\* the column behind each field of an update DTO
ColumnOf ==
    [title |-> "title", content |-> "content", tags |-> "tags",
     pinned |-> "pinned", favorite |-> "favorite", folderId |-> "folder_id",
     visibility |-> "visibility", password |-> "password",
     shareUrl |-> "share_url", shortId |-> "short_id",
     expiresAt |-> "expires_at", isDeleted |-> "is_deleted",
     deletedAt |-> "deleted_at", originalFolderId |-> "original_folder_id",
     originalPinned |-> "original_pinned",
     originalFavorite |-> "original_favorite",
     name |-> "name", color |-> "color", username |-> "username",
     email |-> "email", role |-> "role", permissions |-> "permissions",
     suspended |-> "suspended", suspendedReason |-> "suspended_reason"]

\* what update(id, data) may have done to a table: rows other than id and
\* columns outside the present fields, the updated timestamp and `extra' keep
\* their values; no recognised field or no row means no write at all
UpdateWrote(old, new, id, data, fields, extra, ret) ==
    LET present == DOMAIN data \cap fields
        allowed == {ColumnOf[f] : f \in present} \cup {"updated_at"} \cup extra
    IN  /\ DOMAIN new = DOMAIN old
        /\ \A i \in DOMAIN old \ {id} : new[i] = old[i]
        /\ id \in DOMAIN old =>
              \A c \in DOMAIN old[id] \ allowed : new[id][c] = old[id][c]
        /\ present = {} => new = old /\ ret = (IF id \in DOMAIN old THEN 1 ELSE 0)
        /\ id \notin DOMAIN old => new = old /\ ret = 0

\* the suspension columns the account update writes along with `suspended'
SuspensionColumns(data) ==
    IF ~Has(data, "suspended") THEN {}
    ELSE IF data.suspended THEN {"suspended_at"}
    ELSE {"suspended_at", "suspended_reason"}

UpdateCalled == last'.op = "update" /\ clock' = clock + 1

\* C14: update(id, partial) in every repository writes only the columns of
\* the fields present in partial plus the updated timestamp; with no
\* recognised field it writes nothing, leaves every column including the
\* updated timestamp unchanged and returns the current row; for an id with no
\* row it returns null and creates nothing.
UpdateWritesOnlyPresentFields ==
    [][UpdateCalled =>
        /\ repo = "notes" =>
             UpdateWrote(notes, notes', last'.id, last'.data, NoteUpdateFields,
                         {}, last'.ret)
        /\ repo = "folders" =>
             UpdateWrote(folders, folders', last'.id, last'.data,
                         FolderUpdateFields, {}, last'.ret)
        /\ repo = "users" =>
             UpdateWrote(users, users', last'.id, last'.data, UserUpdateFields,
                         {}, last'.ret)]_vars

\* C14, amended: as above, except that the account update, when `suspended'
\* is present, also writes suspended_at, and suspended_reason too when
\* suspended is false.
UpdateWritesPresentFieldsAndSuspension ==
    [][UpdateCalled =>
        /\ repo = "notes" =>
             UpdateWrote(notes, notes', last'.id, last'.data, NoteUpdateFields,
                         {}, last'.ret)
        /\ repo = "folders" =>
             UpdateWrote(folders, folders', last'.id, last'.data,
                         FolderUpdateFields, {}, last'.ret)
        /\ repo = "users" =>
             UpdateWrote(users, users', last'.id, last'.data, UserUpdateFields,
                         SuspensionColumns(last'.data), last'.ret)]_vars

\* an account update with suspended = false has cleared the suspension of a
\* suspended account
UpdateWritesPresentFieldsAndSuspensionWitness ==
    /\ repo = "users" /\ last.op = "update" /\ ~last.raised
    /\ last.data = [suspended |-> FALSE, name |-> "M"]
    /\ last.pre.id # NULL /\ last.pre.suspended = 1
    /\ last.pre.suspended_reason = "spam"
    /\ users[last.id].suspended_at = NULLN
    /\ users[last.id].suspended_reason = NULL
    /\ users[last.id].name = "M"

\* the table of the repository in focus, and its columns
Focus == CASE repo = "notes" -> notes [] repo = "folders" -> folders [] OTHER -> users
KnownColumns ==
    CASE repo = "notes" -> DOMAIN (CHOOSE r \in NoteSamples : TRUE)
      [] repo = "folders" -> DOMAIN (CHOOSE r \in FolderSamples : TRUE)
      [] OTHER -> DOMAIN (CHOOSE r \in UserSamples : TRUE)

Listing == last.op \in {"findAll", "findByOwnerId", "findWithFilter"}

\* C15: in findAll, findByOwnerId and findWithFilter the ORDER BY clause of
\* every statement sent names a known column of the table and the direction
\* ASC or DESC; a caller's orderBy or orderDirection that is anything else
\* does not get into the SQL text.
OrderByOnlyKnownColumns ==
    Listing =>
        \A k \in DOMAIN sent :
            LET text == Text(sent[k])
            IN  \A j \in DOMAIN text :
                    text[j] = "ORDER BY" =>
                        /\ text[j + 1] \in KnownColumns
                        /\ text[j + 2] \in {"ASC", "DESC"}

\* the options without the page
Unpaged(options) == [f \in DOMAIN options \ {"limit", "offset"} |-> options[f]]

\* the total findWithFilter reports for the options
TotalOf(options) ==
    CASE repo = "notes" -> NoteFindWithFilter(notes, options).total
      [] repo = "folders" -> FolderFindWithFilter(folders, options).total
      [] OTHER -> UserFindWithFilter(users, options).total

\* C16: for every filter and every limit/offset, the data query and the COUNT
\* query of findWithFilter carry the same predicate list and the same
\* parameters in the same order, the data query having limit and offset
\* appended; total is the number of all rows satisfying the predicates, the
\* same whatever limit and offset are, and the page is cut out of those rows.
FilterCountsWhatItPages ==
    last.op = "findWithFilter" =>
        LET matching == {i \in DOMAIN Focus :
                            \A k \in DOMAIN sent[2].conds :
                                Holds(sent[2].conds[k], Focus[i])}
            page == last.ret
            rest == IF page.total > page.offset THEN page.total - page.offset ELSE 0
        IN  /\ Len(sent) = 2 /\ ~sent[1].count /\ sent[2].count
            /\ WhereText(sent[1].conds) = WhereText(sent[2].conds)
            /\ Params(sent[1]) = Params(sent[2]) \o <<page.limit, page.offset>>
            /\ page.total = Cardinality(matching)
            /\ page.total = TotalOf(Unpaged(last.data))
            /\ Len(page.data) = IF page.limit < rest THEN page.limit ELSE rest
            /\ \A k \in DOMAIN page.data : page.data[k].id \in matching

\* the second of three active notes is the page, the total is three
FilterCountsWhatItPagesWitness ==
    /\ repo = "notes" /\ last.op = "findWithFilter"
    /\ last.data = [limit |-> 1, offset |-> 1]
    /\ last.ret.total = 3 /\ Len(last.ret.data) = 1
    /\ Cardinality(DOMAIN notes) = 4

\* C17: Note findWithFilter returns a note only if it satisfies every supplied
\* predicate: its owner is ownerId; the deleted-state predicate; with folderId
\* omitted no constraint, with folderId null the note has no folder, with a
\* folderId value the folder is that value; its visibility is the one asked
\* for; and when tags are given it has at least one of them.
NoteFilterReturnsOnlyMatching ==
    (repo = "notes" /\ last.op = "findWithFilter") =>
        \A k \in DOMAIN last.ret.data :
            LET n == last.ret.data[k]
                o == last.data
            IN  /\ Has(o, "ownerId") => n.ownerId = o.ownerId
                /\ Truthy(o, "onlyDeleted") => n.isDeleted
                /\ (~Truthy(o, "onlyDeleted") /\ ~Truthy(o, "includeDeleted"))
                        => ~n.isDeleted
                /\ Has(o, "folderId") => n.folderId = o.folderId
                /\ Has(o, "visibility") => n.visibility = o.visibility
                /\ Len(SeqOr(o, "tags")) > 0 =>
                        \E j \in DOMAIN o.tags, t \in DOMAIN n.tags :
                            n.tags[t] = o.tags[j]

\* C18: in every state reached through create, update, suspendUser,
\* unsuspendUser, upsert and bulkUpsert, an account has a suspension timestamp
\* and a suspension reason exactly when it is suspended.
SuspensionFieldsIffSuspended ==
    \A i \in DOMAIN users :
        (users[i].suspended = 1)
            <=> (users[i].suspended_at # NULLN /\ users[i].suspended_reason # NULL)

CreateCalled == last'.op = "create" /\ clock' = clock + 1 /\ ~last'.raised

\* findById of the id create returned, in the state create leaves
Created ==
    CASE repo = "notes" -> NoteFindById(notes', last'.id)
      [] repo = "folders" -> FolderFindById(folders', last'.id)
      [] OTHER -> UserFindById(users', last'.id)

\* the id is fresh, the timestamps are set, and a note made from title,
\* content and ownerId alone has the defaults
CreatedFresh(e) ==
    /\ last'.id \notin DOMAIN Focus
    /\ e.id = last'.id
    /\ e.createdAt = clock /\ e.updatedAt = clock
    /\ (repo = "notes" /\ DOMAIN last'.data = {"title", "content", "ownerId"}) =>
            /\ e.pinned = FALSE /\ e.favorite = FALSE /\ e.folderId = NULL
            /\ e.visibility = "private" /\ e.views = 0
            /\ e.versions = <<>> /\ e.comments = <<>> /\ e.isDeleted = FALSE

\* C19: for every entity type, create(dto) followed by findById of the
\* returned id yields a row whose fields equal the DTO's fields exactly, with
\* a fresh id and the created and updated timestamps set; a note made from
\* title, content and ownerId alone has pinned=false, favorite=false,
\* folderId=null, visibility=private, views=0, versions=[], comments=[] and
\* isDeleted=false.
CreateThenFindEqualsDTO ==
    [][CreateCalled =>
        /\ CreatedFresh(Created)
        /\ \A f \in DOMAIN last'.data :
              f \in DOMAIN Created /\ Created[f] = last'.data[f]]_vars

\* an optional string field that create reads with `||': given as the empty
\* string it counts as left out
EmptyCountsAsAbsent(f, dto) ==
    /\ f \in {"password", "folderId", "visibility", "username", "role"}
    /\ ~(repo = "users" /\ f = "password")
    /\ dto[f] = ""

\* C19, amended: as above, except that the password of an account DTO comes
\* back as passwordHash, and that an optional string field given as the empty
\* string is treated as left out: an empty note password is absent from the
\* note, an empty username is replaced by a generated one.
CreateThenFindEqualsStoredDTO ==
    [][CreateCalled =>
        /\ CreatedFresh(Created)
        /\ \A f \in DOMAIN last'.data :
              IF EmptyCountsAsAbsent(f, last'.data)
              THEN /\ (repo = "notes" /\ f = "password") => f \notin DOMAIN Created
                   /\ f = "username" =>
                        Created[f] \in GeneratedUsernames(LocalPart(last'.data))
              ELSE IF repo = "users" /\ f = "password"
              THEN Created.passwordHash = last'.data[f]
              ELSE f \in DOMAIN Created /\ Created[f] = last'.data[f]]_vars

\* an account was created from a DTO with a password and a role
CreateThenFindEqualsStoredDTOWitness ==
    /\ last.op = "create" /\ ~last.raised
    /\ repo = "users" /\ Has(last.data, "role")
    /\ users[last.id].password_hash = "pw" /\ users[last.id].role = "admin"

\* C20: permanentDelete(id, owner) on notes and folders removes the row and
\* returns true when the row exists and belongs to owner, be it active or
\* trashed; when the id has no row or the row belongs to another owner it
\* removes nothing and returns false.
PermanentDeleteRemovesOwnedRow ==
    [][(last'.op = "permanentDelete" /\ clock' = clock + 1) =>
        IF last'.id \in DOMAIN Focus /\ Focus[last'.id].owner_id = last'.owner
        THEN /\ DOMAIN Focus' = DOMAIN Focus \ {last'.id}
             /\ \A i \in DOMAIN Focus' : Focus'[i] = Focus[i]
             /\ last'.ret = 1
        ELSE Focus' = Focus /\ last'.ret = 0]_vars

\* a trashed note was removed by its owner while another row stayed
PermanentDeleteRemovesOwnedRowWitness ==
    /\ repo = "notes" /\ last.op = "permanentDelete" /\ last.ret = 1
    /\ last.pre.id # NULL /\ last.pre.is_deleted = 1
    /\ last.id \notin DOMAIN notes /\ DOMAIN notes # {}

\* ---------------------------------------------------------------------
\* HTTP front: the onRequest API key hook and the route handlers
\* ---------------------------------------------------------------------

\* a header value is a sequence of pieces, "" being the empty sequence
\* config.security.apiKey; the process exits at start when it is empty
ApiKey == <<"k">>

Bearer == "Bearer "

\* String.prototype.replace(piece, ''): drops the first occurrence only
RECURSIVE Replace(_, _)
Replace(s, piece) ==
    IF s = <<>> THEN <<>>
    ELSE IF Head(s) = piece THEN Tail(s)
    ELSE <<Head(s)>> \o Replace(Tail(s), piece)

\* request.url === '/api/raw/health' || request.url === '/'
\* (request.url carries the query string)
PublicUrl(url) == url = "/api/raw/health" \/ url = "/"

\* headers['x-api-key'] || headers['authorization']?.replace('Bearer ', '')
PresentedKey(headers) ==
    IF Has(headers, "x-api-key") /\ headers["x-api-key"] # <<>>
    THEN headers["x-api-key"]
    ELSE IF Has(headers, "authorization")
         THEN Replace(headers["authorization"], Bearer)
         ELSE <<>>

\* a hook that exempts every url under /api/raw/health
onRequestApiKey_PublicPrefix(req) ==
    IF PublicUrl(req.url) \/ req.url = "/api/raw/health?full=1" THEN 0
    ELSE IF PresentedKey(req.headers) = <<>> THEN 401
    ELSE IF PresentedKey(req.headers) # ApiKey THEN 403
    ELSE 0

\* the API key hook: the status it replies with, 0 when it lets the
\* request through
onRequestApiKey(req) ==
    IF PublicUrl(req.url) THEN 0
    ELSE IF PresentedKey(req.headers) = <<>> THEN 401
    ELSE IF PresentedKey(req.headers) # ApiKey THEN 403
    ELSE 0

\* what the handler of the matched route invokes (the router matches the
\* path without the query string)
Invokes(url) ==
    CASE url = "/" -> "none"
      [] url = "/api/raw/health" -> "healthCheck"
      [] url = "/api/raw/health?full=1" -> "healthCheck"
      [] url = "/api/notes" -> "repository"
      [] url = "/api/users/a1" -> "repository"
      [] url = "/api/raw/query" -> "rawQuery"
      [] url = "/api/raw/migrate" -> "migration"

Urls ==
    {"/", "/api/raw/health", "/api/raw/health?full=1", "/api/notes",
     "/api/users/a1", "/api/raw/query", "/api/raw/migrate"}

XApiKeys == {<<>>, <<"k">>, <<"x">>}

Authorizations ==
    {<<>>, <<Bearer>>, <<Bearer, "k">>, <<Bearer, "x">>, <<"k">>, <<"bearer ", "k">>}

Headers ==
    {Opt("x-api-key", x[1], x[2]) @@ Opt("authorization", a[1], a[2]) :
        x \in ({FALSE} \X {<<>>}) \cup ({TRUE} \X XApiKeys),
        a \in ({FALSE} \X {<<>>}) \cup ({TRUE} \X Authorizations)}

NoRequest == [pc |-> "idle", url |-> "/", headers |-> EmptyDTO, status |-> 0, invoked |-> "none"]

InitHttp ==
    /\ notes = <<>>
    /\ folders = <<>>
    /\ users = <<>>
    /\ clock = 1
    /\ repo = "notes"
    /\ procs = <<>>
    /\ pool = NoPool
    /\ call = NoRequest
    /\ sent = <<>>
    /\ last = NoneCalled

HttpFrame == UNCHANGED <<notes, folders, users, clock, repo, procs, pool, sent, last>>

\* a request arrives
Receive ==
    /\ call.pc = "idle"
    /\ \E url \in Urls, headers \in Headers :
          call' = [NoRequest EXCEPT !.pc = "onRequest", !.url = url, !.headers = headers]
    /\ HttpFrame

\* the onRequest hooks run; a reply sent by the hook ends the request
ApiKeyHook ==
    /\ call.pc = "onRequest"
    /\ LET status == onRequestApiKey(call) IN
          call' = IF status # 0
                  THEN [call EXCEPT !.pc = "replied", !.status = status]
                  ELSE [call EXCEPT !.pc = "handler"]
    /\ HttpFrame

\* the handler of the matched route runs
RouteHandler ==
    /\ call.pc = "handler"
    /\ call' = [call EXCEPT !.pc = "replied", !.status = 200, !.invoked = Invokes(call.url)]
    /\ HttpFrame

RequestOver ==
    /\ call.pc = "replied"
    /\ call' = NoRequest
    /\ HttpFrame

NextHttp ==
    \/ Receive
    \/ ApiKeyHook
    \/ RouteHandler
    \/ RequestOver

SpecHttp == InitHttp /\ [][NextHttp]_vars

CarriesNoKey(req) ==
    ~Has(req.headers, "x-api-key") /\ ~Has(req.headers, "authorization")

CarriesWrongKey(req) ==
    PresentedKey(req.headers) # <<>> /\ PresentedKey(req.headers) # ApiKey

\* C21: a request to an endpoint other than '/' and '/api/raw/health'
\* without an API key is answered 401 and one with a wrong key 403, and
\* in neither case a repository, raw query or migration operation (or any
\* other handler) is invoked
UnauthenticatedRequestsRejected ==
    (call.pc # "idle" /\ ~PublicUrl(call.url)) =>
        /\ (CarriesNoKey(call) \/ CarriesWrongKey(call)) => call.invoked = "none" /\ call.pc # "handler"
        /\ (call.pc = "replied" /\ CarriesNoKey(call)) => call.status = 401
        /\ (call.pc = "replied" /\ CarriesWrongKey(call)) => call.status = 403

RejectedWithoutKey ==
    /\ call.pc = "replied" /\ call.url = "/api/raw/query"
    /\ CarriesNoKey(call) /\ call.status = 401 /\ call.invoked = "none"

\* C22: every connection that withTransaction, healthCheck or
\* MySQLAdapter.connect takes from the pool is released exactly once before
\* the operation returns or raises; no connection is checked out while no
\* operation is in flight
ConnectionsReleasedOnce ==
    /\ pool.inUse >= 0
    /\ call.pc \in {"idle", "returned", "raised"} => pool.inUse = 0

\* the entries of a log
Entries(log) == {log[i] : i \in DOMAIN log}

\* the log column an operation appends to
LogOf(op) == IF op = "addComment" THEN "comments" ELSE "versions"

\* callers p and q ran the same log operation and have both completed,
\* each having read the log before the other wrote
ReadSameLog(p, q) ==
    /\ p # q
    /\ procs[p].op \in {"addComment", "addVersion"} /\ procs[q].op = procs[p].op
    /\ procs[p].pc = "done" /\ procs[q].pc = "done"
    /\ procs[p].read[LogOf(procs[p].op)] = procs[q].read[LogOf(procs[p].op)]

\* C23: when two concurrent addComment (likewise addVersion) calls on one
\* note both read the same log before either writes, the later write
\* overwrites the earlier one: both calls complete, and the log holds the
\* entry of only one of them.
ConcurrentAppendsLoseOne ==
    \A p \in Procs, q \in Procs :
        ReadSameLog(p, q) =>
            ~({p, q} \subseteq Entries(notes[TheNote][LogOf(procs[p].op)]))

\* two addVersion calls read the empty log, both wrote, one entry is left
ConcurrentAppendsLoseOneWitness ==
    \E p \in Procs, q \in Procs :
        /\ ReadSameLog(p, q) /\ procs[p].op = "addVersion"
        /\ Len(notes[TheNote].versions) = 1
        /\ notes[TheNote].versions[1] \in {p, q}

\* caller p is the only one appending to its log
OnlyAppender(p) == \A q \in Procs : q # p => procs[q].op # procs[p].op

\* C28: an addVersion and an addComment running concurrently on one note
\* never lose each other's entry, each writing only its own column: the
\* entry of a completed call stays in its log whatever calls on the other
\* log (and update, softDelete, restore, incrementViews) run beside it.
LogsIndependent ==
    \A p \in Procs :
        (procs[p].op \in {"addComment", "addVersion"} /\ procs[p].pc = "done"
            /\ OnlyAppender(p))
        => p \in Entries(notes[TheNote][LogOf(procs[p].op)])

\* addVersion and addComment both read the note before either wrote; both
\* entries are in the store
LogsIndependentWitness ==
    \E p \in Procs, q \in Procs :
        /\ procs[p].op = "addVersion" /\ procs[q].op = "addComment"
        /\ procs[p].pc = "done" /\ procs[q].pc = "done"
        /\ procs[p].read.versions = <<>> /\ procs[q].read.comments = <<>>
        /\ procs[p].read.updated_at = procs[q].read.updated_at
        /\ notes[TheNote].versions = <<p>> /\ notes[TheNote].comments = <<q>>

-----------------------------------------------------------------------------
(* The module-level pool of connection.ts: getPool and closePool under       *)
(* concurrent callers                                                        *)

\* calls made on the pool module in one run
MaxPoolCalls == 5

\* `let pool: Pool | null = null': current is 0 for null, else the number of
\* the pool object; status tells what became of every pool object created
NoPoolYet == [current |-> 0, status |-> <<>>]

\* getPool(): creates the pool when the variable is null, returns the variable
getPool(m) ==
    IF m.current = 0
    THEN [current |-> Len(m.status) + 1, status |-> Append(m.status, "open")]
    ELSE m

\* pools created and not yet told to end
LivePools == {i \in DOMAIN pool.status : pool.status[i] = "open"}

PoolOps == {"query", "connect", "closePool"}

IdleCaller == [op |-> "none", pc |-> "idle", got |-> 0, ok |-> TRUE]

InitPool ==
    /\ notes = <<>>
    /\ folders = <<>>
    /\ users = <<>>
    /\ clock = 1
    /\ repo = "notes"
    /\ procs = [p \in Procs |-> IdleCaller]
    /\ pool = NoPoolYet
    /\ call = NoCall
    /\ sent = <<>>
    /\ last = NoneCalled

PoolFrame == UNCHANGED <<notes, folders, users, repo, call, sent, last>>

\* a caller starts query(), MySQLAdapter.connect() or closePool()
PoolCallBegins(p) ==
    /\ procs[p].pc = "idle" /\ clock <= MaxPoolCalls
    /\ \E op \in PoolOps : procs' = [procs EXCEPT ![p] = [IdleCaller EXCEPT !.op = op, !.pc = "start"]]
    /\ clock' = clock + 1
    /\ UNCHANGED pool /\ PoolFrame

\* const pool = getPool(), synchronous
GetPoolStep(p) ==
    /\ procs[p].op \in {"query", "connect"} /\ procs[p].pc = "start"
    /\ pool' = getPool(pool)
    /\ procs' = [procs EXCEPT ![p].pc = "use", ![p].got = pool'.current]
    /\ UNCHANGED clock /\ PoolFrame

\* await pool.execute(...) / getConnection, ping, release: rejected by a
\* pool that was told to end
UsePoolStep(p) ==
    /\ procs[p].pc = "use"
    /\ procs' = [procs EXCEPT ![p].pc = "idle", ![p].ok = (pool.status[procs[p].got] = "open")]
    /\ UNCHANGED <<pool, clock>> /\ PoolFrame

\* closePool up to its await: if (pool) pool.end()
ClosePoolStep(p) ==
    /\ procs[p].op = "closePool" /\ procs[p].pc = "start"
    /\ IF pool.current # 0
       THEN /\ pool' = [pool EXCEPT !.status[pool.current] =
                           IF @ = "open" THEN "ending" ELSE @]
            /\ procs' = [procs EXCEPT ![p].pc = "ending", ![p].got = pool.current]
       ELSE /\ pool' = pool
            /\ procs' = [procs EXCEPT ![p].pc = "idle"]
    /\ UNCHANGED clock /\ PoolFrame

\* closePool after its await: the pool has ended; pool = null
ClosePoolEnded(p) ==
    /\ procs[p].pc = "ending"
    /\ pool' = [current |-> 0, status |-> [pool.status EXCEPT ![procs[p].got] = "ended"]]
    /\ procs' = [procs EXCEPT ![p].pc = "idle"]
    /\ UNCHANGED clock /\ PoolFrame

NextPool ==
    \E p \in Procs :
        \/ PoolCallBegins(p)
        \/ GetPoolStep(p)
        \/ UsePoolStep(p)
        \/ ClosePoolStep(p)
        \/ ClosePoolEnded(p)

SpecPool == InitPool /\ [][NextPool]_vars

\* C24: getPool creates the pool on the first call only and returns the
\* same pool until closePool completes; at no time do two live pools exist,
\* whatever the interleaving of queries, connect and concurrent closePool
\* calls.
AtMostOneLivePool == Cardinality(LivePools) <= 1

-----------------------------------------------------------------------------
(* Concurrent repository calls sharing the pool: Folder bulkUpsert holds its *)
(* transaction connection while every statement of its upserts goes through  *)
(* pool.execute, which takes a connection of its own; the store answers      *)
(* every statement                                                           *)

\* statements of one upsert: the existence SELECT, the INSERT or UPDATE, and
\* the SELECT of findById
StatementsPerUpsert == 3

BatchLengths == {1, 2}

InitBulk ==
    /\ notes = <<>>
    /\ folders = <<>>
    /\ users = <<>>
    /\ clock = 1
    /\ repo = "folders"
    /\ procs \in [Procs -> {[op |-> "findById", pc |-> "start", left |-> 1]}
                      \cup {[op |-> "bulkUpsert", pc |-> "start",
                             left |-> n * StatementsPerUpsert] : n \in BatchLengths}]
    /\ pool = NoPool
    /\ call = NoCall
    /\ sent = <<>>
    /\ last = NoneCalled

BulkFrame == UNCHANGED <<notes, folders, users, clock, repo, call, sent, last>>

\* withTransaction: await getConnection(), then beginTransaction on it; the
\* pool hands out a connection when fewer than connectionLimit are taken
\* (waitForConnections: true, queueLimit: 0: the request waits otherwise)
BulkGetConnection(p) ==
    /\ At(p, "bulkUpsert", "start") /\ pool.inUse < PoolMax
    /\ pool' = PoolAcquire(pool)
    /\ procs' = [procs EXCEPT ![p].pc = "fn"]
    /\ BulkFrame

\* query / execute: pool.execute takes a connection for the statement
StatementStart(p) ==
    /\ \/ At(p, "bulkUpsert", "fn") /\ procs[p].left > 0
       \/ At(p, "findById", "start")
    /\ pool.inUse < PoolMax
    /\ pool' = PoolAcquire(pool)
    /\ procs' = [procs EXCEPT ![p].pc = "statement"]
    /\ BulkFrame

\* the store answers; pool.execute gives its connection back
StatementEnd(p) ==
    /\ procs[p].pc = "statement"
    /\ pool' = PoolRelease(pool)
    /\ procs' = [procs EXCEPT ![p].left = @ - 1,
                              ![p].pc = IF procs[p].op = "bulkUpsert" THEN "fn" ELSE "done"]
    /\ BulkFrame

\* the loop is over: commit, and the finally block releases the connection
BulkCommit(p) ==
    /\ At(p, "bulkUpsert", "fn") /\ procs[p].left = 0
    /\ pool' = PoolRelease(pool)
    /\ procs' = [procs EXCEPT ![p].pc = "done"]
    /\ BulkFrame

NextBulk ==
    \E p \in Procs :
        \/ BulkGetConnection(p)
        \/ StatementStart(p)
        \/ StatementEnd(p)
        \/ BulkCommit(p)

\* the event loop runs every continuation that is ready, and the pool serves
\* its waiting requests in order once a connection is free
SpecBulk ==
    /\ InitBulk /\ [][NextBulk]_vars
    /\ \A p \in Procs :
          /\ SF_vars(BulkGetConnection(p))
          /\ SF_vars(StatementStart(p))
          /\ WF_vars(StatementEnd(p))
          /\ WF_vars(BulkCommit(p))

\* C25: with a pool of P connections and a store that answers every
\* statement, every repository call eventually completes, whatever the
\* number of concurrent calls; in particular P concurrent Folder bulkUpsert
\* calls, each holding its transaction connection while its upserts ask for
\* a further one, all complete.
EveryCallCompletes == <>(\A p \in Procs : procs[p].pc = "done")

\* C26: upsert(id, ownerB, X) on a note or a folder whose row exists under
\* another owner A never changes that row: the existence check by (id, owner)
\* finds nothing, the INSERT fails on the primary key, the call raises, and
\* the row keeps its owner and every column.
UpsertKeepsForeignRow ==
    (repo \in {"notes", "folders"} /\ last.op = "upsert"
        /\ last.pre # NoRow /\ last.pre.owner_id # last.owner)
    => /\ last.raised
       /\ RowOf(Focus, last.id) = last.pre

\* a note of u1 was upserted by u2
UpsertKeepsForeignRowWitness ==
    /\ repo = "notes" /\ last.op = "upsert" /\ last.raised
    /\ last.owner = "u2" /\ OwnedBy(last.pre, "u1")
    /\ notes[last.id] = last.pre

-----------------------------------------------------------------------------
(* One bulkUpsert of notes or of accounts: Promise.allSettled starts the      *)
(* upsert of every element at once, and their statements reach the store in  *)
(* any order                                                                 *)

\* well-formed batches: every element has its id (and owner), the second
\* batch naming one id twice
ConcurrentNoteBatches ==
    {<<[id |-> "n1", ownerId |-> "u1", title |-> "A"],
       [id |-> "n2", ownerId |-> "u1", title |-> "B"]>>,
     <<[id |-> "n1", ownerId |-> "u1", title |-> "A"],
       [id |-> "n1", ownerId |-> "u1", title |-> "B"]>>}

ConcurrentUserBatches ==
    {<<[id |-> "a1", username |-> "b", email |-> <<"b", "x">>, name |-> "A"],
       [id |-> "a2", username |-> "c", email |-> <<"c", "x">>, name |-> "B"]>>,
     <<[id |-> "a1", username |-> "b", email |-> <<"b", "x">>, name |-> "A"],
       [id |-> "a1", username |-> "b", email |-> <<"b", "x">>, name |-> "B"]>>}

\* the positions of a batch
Elements == {1, 2}

\* the existence SELECT of upsert
NoteUpsertExists(tbl, elt) == elt.id \in DOMAIN tbl /\ tbl[elt.id].owner_id = elt.ownerId
UserUpsertExists(tbl, elt) == elt.id \in DOMAIN tbl

\* the statement upsert sends after its SELECT answered `existing'
NoteUpsertWrite(tbl, elt, existing, now) ==
    IF existing THEN NoteUpdate(tbl, elt.id, elt, now)
    ELSE IF elt.id \in DOMAIN tbl THEN Outcome(tbl, TRUE, 0)
    ELSE Outcome(tbl @@ (elt.id :> NoteUpsertRow(elt.id, elt.ownerId, elt, now)), FALSE, 1)

UserUpsertWrite(tbl, elt, existing, now) ==
    IF existing
    THEN IF elt.id \notin DOMAIN tbl THEN Outcome(tbl, FALSE, 0)
         ELSE LET row == UserUpsertUpdateRow(tbl[elt.id], elt, now)
              IN  IF UserUnique(tbl, elt.id, row)
                  THEN Outcome([tbl EXCEPT ![elt.id] = row], FALSE, 1)
                  ELSE Outcome(tbl, TRUE, 0)
    ELSE LET row == UserUpsertRow(elt.id, elt, now)
         IN  IF elt.id \notin DOMAIN tbl /\ UserUnique(tbl, elt.id, row)
             THEN Outcome(tbl @@ (elt.id :> row), FALSE, 1)
             ELSE Outcome(tbl, TRUE, 0)

InitBatch ==
    /\ repo \in {"notes", "users"}
    /\ notes \in IF repo = "notes"
                 THEN {<<>>, "n2" :> NoteCreateRow("n2", [ownerId |-> "u1", title |-> "T", content |-> "C"], 0)}
                 ELSE {<<>>}
    /\ folders = <<>>
    /\ users \in IF repo = "users"
                 THEN {<<>>, "a2" :> UserUpsertRow("a2", [username |-> "c", email |-> <<"c", "x">>], NowISO(0))}
                 ELSE {<<>>}
    /\ clock = 1
    /\ \E batch \in IF repo = "notes" THEN ConcurrentNoteBatches ELSE ConcurrentUserBatches :
          /\ call = [batch |-> batch, pc |-> "allSettled"]
          /\ procs = [k \in Elements |-> [pc |-> "start", existing |-> FALSE]]
    /\ pool = NoPool
    /\ sent = <<>>
    /\ last = NoneCalled

BatchFrame == UNCHANGED <<folders, repo, pool, sent>>

\* SELECT id FROM ... WHERE id = ? (AND owner_id = ?) of element k
UpsertSelectStep(k) ==
    /\ procs[k].pc = "start"
    /\ procs' = [procs EXCEPT ![k].pc = "write",
                   ![k].existing = IF repo = "notes"
                                   THEN NoteUpsertExists(notes, call.batch[k])
                                   ELSE UserUpsertExists(users, call.batch[k])]
    /\ clock' = clock + 1
    /\ UNCHANGED <<notes, users, call, last>> /\ BatchFrame

\* the UPDATE or INSERT of element k; a rejected statement rejects the upsert
UpsertWriteStep(k) ==
    /\ procs[k].pc = "write"
    /\ LET out == IF repo = "notes"
                  THEN NoteUpsertWrite(notes, call.batch[k], procs[k].existing, clock)
                  ELSE UserUpsertWrite(users, call.batch[k], procs[k].existing, NowISO(clock))
       IN  /\ notes' = IF repo = "notes" THEN out.tbl ELSE notes
           /\ users' = IF repo = "users" THEN out.tbl ELSE users
           /\ procs' = [procs EXCEPT ![k].pc = IF out.raised THEN "rejected" ELSE "findById"]
    /\ clock' = clock + 1
    /\ UNCHANGED <<call, last>> /\ BatchFrame

\* return this.findById(id)
UpsertFindByIdStep(k) ==
    /\ procs[k].pc = "findById"
    /\ procs' = [procs EXCEPT ![k].pc = "fulfilled"]
    /\ clock' = clock + 1
    /\ UNCHANGED <<notes, users, call, last>> /\ BatchFrame

\* every promise has settled: count the fulfilled ones and return
BulkUpsertReturns ==
    /\ call.pc = "allSettled"
    /\ \A k \in Elements : procs[k].pc \in {"fulfilled", "rejected"}
    /\ call' = [call EXCEPT !.pc = "returned"]
    /\ last' = [NoneCalled EXCEPT !.op = "bulkUpsert", !.data = call.batch,
                  !.ret = Cardinality({k \in Elements : procs[k].pc = "fulfilled"}),
                  !.failed = {k \in Elements : procs[k].pc = "rejected"}]
    /\ UNCHANGED <<notes, users, procs, clock>> /\ BatchFrame

NextBatch ==
    \/ \E k \in Elements : UpsertSelectStep(k)
    \/ \E k \in Elements : UpsertWriteStep(k)
    \/ \E k \in Elements : UpsertFindByIdStep(k)
    \/ BulkUpsertReturns

SpecBatch == InitBatch /\ [][NextBatch]_vars

\* C27: for a batch of N well-formed elements, the bulkUpsert of notes and of
\* accounts returns N in every interleaving of the concurrent upserts, also
\* when two elements carry the same id that the store does not hold yet.
ConcurrentBulkUpsertCountsAll ==
    last.op = "bulkUpsert" => last.ret = Len(last.data)

-----------------------------------------------------------------------------
(* One findAll / findWithFilter call of the note repository beside writers:  *)
(* Promise.all sends the page query and the COUNT query through the pool, on *)
(* connections of their own, and each is answered from the store as it is    *)
(* at that moment                                                            *)

PageQueries ==
    {[op |-> "findAll", options |-> EmptyDTO],
     [op |-> "findAll", options |-> [limit |-> 1]],
     [op |-> "findWithFilter", options |-> [ownerId |-> "u1"]],
     [op |-> "findWithFilter", options |-> [includeDeleted |-> TRUE]]}

PageStatements(q) ==
    IF q.op = "findAll" THEN NoteFindAllStatements(q.options)
    ELSE NoteFindWithFilterStatements(q.options)

NoListing ==
    [pc |-> "idle", op |-> "none", options |-> EmptyDTO,
     gotRows |-> FALSE, rows |-> <<>>, gotCount |-> FALSE, total |-> 0]

InitPage ==
    /\ notes \in {<<>>,
                  "n1" :> NoteCreateRow("n1", [ownerId |-> "u1", title |-> "T", content |-> "C"], 0)}
    /\ folders = <<>>
    /\ users = <<>>
    /\ clock = 1
    /\ repo = "notes"
    /\ procs = <<>>
    /\ pool = NoPool
    /\ call = NoListing
    /\ sent = <<>>
    /\ last = NoneCalled

PageFrame == UNCHANGED <<folders, users, repo, procs, pool, sent>>

\* a write of another caller reaches the store
ConcurrentWrite(tbl) ==
    /\ clock <= MaxCalls
    /\ notes' = tbl
    /\ clock' = clock + 1
    /\ UNCHANGED <<call, last>> /\ PageFrame

ConcurrentCreate ==
    \E id \in NoteIds \ DOMAIN notes :
        ConcurrentWrite(NoteCreate(notes, id, [ownerId |-> "u1", title |-> "T", content |-> "C"], clock).tbl)

ConcurrentDelete ==
    \E id \in NoteIds : ConcurrentWrite(NoteDelete(notes, id).tbl)

ConcurrentSoftDelete ==
    \E id \in NoteIds : ConcurrentWrite(NoteSoftDelete(notes, id, "u1", clock).tbl)

ConcurrentRestore ==
    \E id \in NoteIds : ConcurrentWrite(NoteRestore(notes, id, "u1", clock).tbl)

ConcurrentPermanentDelete ==
    \E id \in NoteIds : ConcurrentWrite(NotePermanentDelete(notes, id, "u1").tbl)

\* findAll / findWithFilter builds its two statements and sends both
ListingBegins ==
    /\ call.pc = "idle" /\ last.op = "none"
    /\ \E q \in PageQueries :
          call' = [NoListing EXCEPT !.pc = "queries", !.op = q.op, !.options = q.options]
    /\ UNCHANGED <<notes, clock, last>> /\ PageFrame

\* the store answers SELECT * ... LIMIT ? OFFSET ?
PageQueryAnswers ==
    /\ call.pc = "queries" /\ ~call.gotRows
    /\ LET ids == Exec(notes, PageStatements(call)[1]) IN
          call' = [call EXCEPT !.gotRows = TRUE,
                               !.rows = [k \in DOMAIN ids |-> notes[ids[k]]]]
    /\ UNCHANGED <<notes, clock, last>> /\ PageFrame

\* the store answers SELECT COUNT(*)
CountQueryAnswers ==
    /\ call.pc = "queries" /\ ~call.gotCount
    /\ call' = [call EXCEPT !.gotCount = TRUE,
                            !.total = Exec(notes, PageStatements(call)[2])]
    /\ UNCHANGED <<notes, clock, last>> /\ PageFrame

\* Promise.all has both results: { data, total, limit, offset }
ListingReturns ==
    /\ call.pc = "queries" /\ call.gotRows /\ call.gotCount
    /\ last' = [NoneCalled EXCEPT !.op = call.op, !.data = call.options,
                  !.ret = Paginated([k \in DOMAIN call.rows |-> rowToNote(call.rows[k])],
                                    call.total, call.options)]
    /\ call' = NoListing
    /\ UNCHANGED <<notes, clock>> /\ PageFrame

NextPage ==
    \/ ConcurrentCreate
    \/ ConcurrentDelete
    \/ ConcurrentSoftDelete
    \/ ConcurrentRestore
    \/ ConcurrentPermanentDelete
    \/ ListingBegins
    \/ PageQueryAnswers
    \/ CountQueryAnswers
    \/ ListingReturns

SpecPage == InitPage /\ [][NextPage]_vars

\* C29: the page and the total that one findAll / findWithFilter call returns
\* describe one state of the store: every row of data is counted in total, so
\* data.length <= total, also while create, delete, softDelete, restore or
\* permanentDelete run beside the two queries.
PageWithinTotal ==
    last.op \in {"findAll", "findWithFilter"} => Len(last.ret.data) <= last.ret.total

-----------------------------------------------------------------------------
(* updateFolderReference on a store that earlier sessions have filled,       *)
(* followed by softDelete and restore calls                                  *)

NoReference == [kind |-> "none", folderId |-> NULL, ownerId |-> NULL, newFolderId |-> NULL, before |-> <<>>]

InitRef ==
    /\ notes \in TablesOf(NoteSamples)
    /\ folders = <<>>
    /\ users = <<>>
    /\ clock = 1
    /\ repo = "notes"
    /\ procs = <<>>
    /\ pool = NoPool
    /\ call = NoReference
    /\ sent = <<>>
    /\ last = NoneCalled

RefFrame == UNCHANGED <<folders, users, repo, procs, pool, sent>>

\* POST /api/notes/update-folder: updateFolderReference(folderId, ownerId, newFolderId)
FolderReferenceUpdate ==
    /\ call.kind = "none"
    /\ \E f \in MovedFolders, o \in Owners, g \in NewFolders :
          LET out == NoteUpdateFolderReference(notes, f, o, g, clock) IN
             /\ notes' = out.tbl
             /\ call' = [kind |-> "updateFolderReference", folderId |-> f, ownerId |-> o,
                         newFolderId |-> g, before |-> notes]
             /\ last' = [NoneCalled EXCEPT !.op = "updateFolderReference", !.id = f,
                                           !.owner = o, !.ret = out.ret]
    /\ clock' = clock + 1
    /\ RefFrame

\* a later softDelete(id, owner)
LaterSoftDelete ==
    /\ call.kind = "updateFolderReference" /\ clock <= MaxCalls
    /\ \E id \in DOMAIN notes, o \in Owners :
          /\ notes' = NoteSoftDelete(notes, id, o, clock).tbl
          /\ last' = [NoneCalled EXCEPT !.op = "softDelete", !.id = id, !.owner = o]
    /\ clock' = clock + 1
    /\ UNCHANGED call /\ RefFrame

\* a later restore(id, owner)
LaterRestore ==
    /\ call.kind = "updateFolderReference" /\ clock <= MaxCalls
    /\ \E id \in DOMAIN notes, o \in Owners :
          /\ notes' = NoteRestore(notes, id, o, clock).tbl
          /\ last' = [NoneCalled EXCEPT !.op = "restore", !.id = id, !.owner = o]
    /\ clock' = clock + 1
    /\ UNCHANGED call /\ RefFrame

NextRef ==
    \/ FolderReferenceUpdate
    \/ LaterSoftDelete
    \/ LaterRestore

SpecRef == InitRef /\ [][NextRef]_vars

\* the notes updateFolderReference was to move
Referring(tbl) ==
    {i \in DOMAIN tbl : tbl[i].owner_id = call.ownerId /\ tbl[i].folder_id = call.folderId}

\* C30: updateFolderReference(f, o, g) sets folderId to g on exactly the notes
\* of owner o in folder f and returns their number, changing no other note
\* and no originalFolderId; after it no note of owner o has folderId f, in
\* any later state that softDelete and restore calls alone lead to.
FolderReferenceStaysUpdated ==
    /\ last.op = "updateFolderReference" =>
          /\ last.ret = Cardinality(Referring(call.before))
          /\ \A i \in DOMAIN notes :
                /\ i \in Referring(call.before) => notes[i].folder_id = call.newFolderId
                /\ i \notin Referring(call.before) => notes[i] = call.before[i]
                /\ notes[i].original_folder_id = call.before[i].original_folder_id
    /\ call.kind = "updateFolderReference" => Referring(notes) = {}

====
